---- MODULE Spec2Model ----
(***************************************************************************)
(* Model of the express-jobly repository layer: the partial-update         *)
(* compiler (helpers/sql.js), the Company and Job repositories             *)
(* (models/company.js, models/job.js) and the storage engine they talk to. *)
(*                                                                         *)
(* Encoding of values.  A JS/SQL string that the code looks into (name,    *)
(* title) is a sequence of one-character strings; opaque text (handle,     *)
(* description, logoUrl, equity) is a TLA+ string; numbers are integers.   *)
(* NULL of a text column is NullText, NULL of a numeric column is NullNum. *)
(* A JS object is a sequence of [k, v] entries in insertion order; a       *)
(* filter object is a function whose DOMAIN is the set of supplied keys.   *)
(* A statement text is a sequence of tokens.                               *)
(***************************************************************************)
EXTENDS Integers, Sequences, FiniteSets, TLC

VARIABLES companies, jobs, jobSeq, users, input, last, calls

vars == <<companies, jobs, jobSeq, users, input, last, calls>>

(***************************************************************************)
(* Bounds of the model.                                                    *)
(***************************************************************************)
MaxKeys == 2
MaxEmployees == 2
MaxSalary == 2
MaxJobId == 2

(***************************************************************************)
(* Values.                                                                 *)
(***************************************************************************)
NullNum == 0 - 1
NullText == "null"
Nothing == <<>>

Handles == {"c1", "c2"}
Names == {<<"N">>, <<"N", "e">>}
Descs == {"Desc1"}
Nums == 0..MaxEmployees
Logos == {"http://c1.img"}
Salaries == 1..MaxSalary

(***************************************************************************)
(* Tokens of a statement text.                                             *)
(***************************************************************************)
Tok(t, s, n) == [t |-> t, s |-> s, n |-> n]
Id(col) == Tok("id", col, 0)
Ph(i) == Tok("ph", "$", i)
Sym(s) == Tok("sym", s, 0)
Lit(n) == Tok("lit", "", n)

\* Evaluates x once and hands its value to F.
Strict(x, F(_)) == CHOOSE y \in {F(v) : v \in {x}} : TRUE

\* Array.prototype.join on texts: the fragments with sep between them.
RECURSIVE JoinFrom(_, _, _)
JoinFrom(frags, sep, i) ==
  IF i > Len(frags) THEN <<>>
  ELSE IF i = Len(frags) THEN frags[i]
  ELSE frags[i] \o <<sep>> \o JoinFrom(frags, sep, i + 1)

Join(frags, sep) == Strict(frags, LAMBDA f : JoinFrom(f, sep, 1))

\* The reading of a joined text by the storage engine: the fragments between
\* separators.
SplitAt(text, sep) ==
  LET cuts == {i \in 1..Len(text) : text[i] = sep}
      Start(k) == IF k = 1 THEN 1
                  ELSE 1 + CHOOSE i \in cuts : Cardinality({j \in cuts : j <= i}) = k - 1
      End(k) == IF k = Cardinality(cuts) + 1 THEN Len(text)
                ELSE (CHOOSE i \in cuts : Cardinality({j \in cuts : j <= i}) = k) - 1
  IN  IF text = <<>> THEN <<>>
      ELSE [k \in 1..(Cardinality(cuts) + 1) |-> SubSeq(text, Start(k), End(k))]

Split(text, sep) == Strict(text, LAMBDA t : SplitAt(t, sep))

(***************************************************************************)
(* helpers/sql.js                                                          *)
(***************************************************************************)
ObjectKeys(obj) == [i \in 1..Len(obj) |-> obj[i].k]
ObjectValues(obj) == [i \in 1..Len(obj) |-> obj[i].v]

BadRequestError(msg) == [msg |-> msg, out |-> "BadRequestError"]
NotFoundError(msg) == [msg |-> msg, out |-> "NotFoundError"]

\* sqlForPartialUpdate numbering its placeholders from the array index, 0.
sqlForPartialUpdateFromZero(dataToUpdate, jsToSql) ==
  LET keys == ObjectKeys(dataToUpdate)
      cols == [idx \in 1..Len(keys) |->
                 <<Id(IF keys[idx] \in DOMAIN jsToSql
                      THEN jsToSql[keys[idx]] ELSE keys[idx]),
                   Sym("="), Ph(idx - 1)>>]
  IN  IF Len(keys) = 0
      THEN [msg |-> "No data", out |-> "BadRequestError",
            setCols |-> <<>>, values |-> <<>>]
      ELSE [msg |-> "", out |-> "ok",
            setCols |-> Join(cols, Sym(",")),
            values |-> ObjectValues(dataToUpdate)]

\* sqlForPartialUpdate without its test for an empty object.
sqlForPartialUpdateUnchecked(dataToUpdate, jsToSql) ==
  LET keys == ObjectKeys(dataToUpdate)
      cols == [idx \in 1..Len(keys) |->
                 <<Id(IF keys[idx] \in DOMAIN jsToSql
                      THEN jsToSql[keys[idx]] ELSE keys[idx]),
                   Sym("="), Ph(idx)>>]
  IN  [msg |-> "", out |-> "ok",
       setCols |-> Join(cols, Sym(",")),
       values |-> ObjectValues(dataToUpdate)]

sqlForPartialUpdate(dataToUpdate, jsToSql) ==
  LET keys == ObjectKeys(dataToUpdate)
      cols == [idx \in 1..Len(keys) |->
                 <<Id(IF keys[idx] \in DOMAIN jsToSql
                      THEN jsToSql[keys[idx]] ELSE keys[idx]),
                   Sym("="), Ph(idx)>>]
  IN  IF Len(keys) = 0
      THEN [msg |-> "No data", out |-> "BadRequestError",
            setCols |-> <<>>, values |-> <<>>]
      ELSE [msg |-> "", out |-> "ok",
            setCols |-> Join(cols, Sym(",")),
            values |-> ObjectValues(dataToUpdate)]

(***************************************************************************)
(* The storage engine (db.query): a statement text and its positional      *)
(* values are run against the tables.  A table is the sequence of its rows *)
(* in insertion order; rows carry the SQL column names.                    *)
(***************************************************************************)
Lower(c) == CASE c = "N" -> "n" [] c = "E" -> "e" [] c = "P" -> "p" [] OTHER -> c

CharCode(c) ==
  CASE c = "%" -> 37 [] c = "E" -> 69 [] c = "N" -> 78 [] c = "P" -> 80
    [] c = "e" -> 101 [] c = "h" -> 104 [] c = "n" -> 110 [] c = "p" -> 112
    [] OTHER -> 120

\* pattern ILIKE-matches s: % stands for any run of characters, letters match
\* without regard to case.  LikeFrom matches pattern from i against s from j.
RECURSIVE LikeFrom(_, _, _, _)
LikeFrom(pattern, s, i, j) ==
  IF i > Len(pattern) THEN j > Len(s)
  ELSE IF pattern[i] = "%"
       THEN LikeFrom(pattern, s, i + 1, j) \/ (j <= Len(s) /\ LikeFrom(pattern, s, i, j + 1))
       ELSE /\ j <= Len(s)
            /\ Lower(pattern[i]) = Lower(s[j])
            /\ LikeFrom(pattern, s, i + 1, j + 1)

Like(pattern, s) ==
  Strict(<<pattern, s>>, LAMBDA a : LikeFrom(a[1], a[2], 1, 1))

\* a sorts before b: by the first character that differs, a prefix first.
TextLess(a, b) ==
  \/ Len(a) < Len(b) /\ SubSeq(b, 1, Len(a)) = a
  \/ \E i \in 1..Len(a) :
       /\ i <= Len(b)
       /\ SubSeq(a, 1, i - 1) = SubSeq(b, 1, i - 1)
       /\ a[i] # b[i]
       /\ CharCode(a[i]) < CharCode(b[i])

\* equity is NUMERIC: the number a stored equity text stands for, in hundredths.
EquityHundredths(e) == CASE e = "0" -> 0 [] e = "0.01" -> 1 [] e = "0.5" -> 50 [] OTHER -> 100

ColType(col) ==
  CASE col \in {"num_employees", "salary", "id"} -> "int"
    [] col = "equity" -> "numeric"
    [] col \in {"name", "title"} -> "string"
    [] OTHER -> "text"

IsNull(col, v) ==
  CASE ColType(col) = "int" -> v = NullNum
    [] ColType(col) = "string" -> FALSE
    [] OTHER -> v = NullText

Number(col, v) == IF ColType(col) = "numeric" THEN EquityHundredths(v) ELSE v

IndexOf(text, tok) ==
  IF \E i \in 1..Len(text) : text[i] = tok
  THEN CHOOSE i \in 1..Len(text) : text[i] = tok /\ \A j \in 1..(i - 1) : text[j] # tok
  ELSE 0

\* The tokens of `text` after keyword `from`, up to the first of the
\* keywords `upto` that follows it (or the end of the text).
Section(text, from, upto) ==
  LET a == IndexOf(text, Sym(from))
      ends == {i \in (a + 1)..Len(text) : text[i].t = "sym" /\ text[i].s \in upto}
      b == IF ends = {} THEN Len(text) + 1
           ELSE CHOOSE i \in ends : \A j \in ends : i <= j
  IN  IF a = 0 THEN <<>> ELSE SubSeq(text, a + 1, b - 1)

Placeholders(text) == {text[i].n : i \in {j \in 1..Len(text) : text[j].t = "ph"}}

\* The bind step: the statement needs as many values as its highest placeholder.
BindError(text, values) ==
  LET phs == Placeholders(text)
      need == IF phs = {} THEN 0 ELSE CHOOSE n \in phs : \A m \in phs : m <= n
  IN  need # Len(values)

Operand(tok, values) == IF tok.t = "ph" THEN values[tok.n] ELSE tok.n

EvalClause(row, clause, values) ==
  LET col == clause[1].s
      op == clause[2].s
      lhs == row[col]
      rhs == Operand(clause[3], values)
  IN  CASE op = "=" -> lhs = rhs
        [] op = ">=" -> ~IsNull(col, lhs) /\ Number(col, lhs) >= rhs
        [] op = "<=" -> ~IsNull(col, lhs) /\ Number(col, lhs) <= rhs
        [] op = ">" -> ~IsNull(col, lhs) /\ Number(col, lhs) > rhs
        [] op = "ILIKE" -> Like(rhs, lhs)
        [] OTHER -> FALSE

\* The rows of `rows` that satisfy every clause of the WHERE section.
WhereRows(rows, text, values) ==
  Strict(Split(Section(text, "WHERE", {"ORDER BY"}), Sym("AND")),
         LAMBDA clauses :
           LET Test(r) == \A i \in 1..Len(clauses) : EvalClause(r, clauses[i], values)
           IN  SelectSeq(rows, Test))

KeyLess(col, a, b) ==
  IF ColType(col) = "string" THEN TextLess(a[col], b[col]) ELSE a[col] < b[col]

\* ORDER BY col: a stable sort, rows with equal keys stay in table order.
Sorted(rows, col) ==
  LET Before(i, j) == \/ KeyLess(col, rows[i], rows[j])
                      \/ ~KeyLess(col, rows[j], rows[i]) /\ i < j
      Rank(i) == 1 + Cardinality({j \in 1..Len(rows) : Before(j, i)})
  IN  [p \in 1..Len(rows) |-> rows[CHOOSE i \in 1..Len(rows) : Rank(i) = p]]

OrderBy(rows, col) == Strict(rows, LAMBDA r : Sorted(r, col))

(***************************************************************************)
(* The tables and their constraints.                                       *)
(***************************************************************************)
CompanyCols == <<"handle", "name", "description", "num_employees", "logo_url">>
JobCols == <<"title", "salary", "equity", "company_handle">>

Range(seq) == {seq[i] : i \in 1..Len(seq)}

Table(db, table) == IF table = "companies" THEN db.companies ELSE db.jobs

TableCols(table) ==
  IF table = "companies" THEN Range(CompanyCols) ELSE Range(JobCols) \cup {"id"}

WithTable(db, table, rows) ==
  IF table = "companies" THEN [db EXCEPT !.companies = rows]
  ELSE [db EXCEPT !.jobs = rows]

\* companies.handle and jobs.id are primary keys.
UniqueViolation(db) ==
  \/ \E i, j \in 1..Len(db.companies) :
       i # j /\ db.companies[i].handle = db.companies[j].handle
  \/ \E i, j \in 1..Len(db.jobs) : i # j /\ db.jobs[i].id = db.jobs[j].id

\* jobs.company_handle references companies.
ForeignKeyViolation(db) ==
  \E i \in 1..Len(db.jobs) :
    \A j \in 1..Len(db.companies) :
      db.companies[j].handle # db.jobs[i].company_handle

\* A delete that leaves the referencing jobs in place.
CascadeNone(db) == db

\* Deleting a company deletes the jobs that reference it.
Cascade(db) ==
  LET Kept(j) == \E i \in 1..Len(db.companies) :
                   db.companies[i].handle = j.company_handle
  IN  [db EXCEPT !.jobs = SelectSeq(db.jobs, Kept)]

Failed(db, code) == [rows |-> <<>>, db |-> db, err |-> code]
Done(db, rows) == [rows |-> rows, db |-> db, err |-> ""]

\* A changed database is kept only if the constraints hold in it.
Constrained(old, new, rows) ==
  IF UniqueViolation(new) THEN Failed(old, "23505")
  ELSE IF ForeignKeyViolation(new) THEN Failed(old, "23503")
  ELSE Done(new, rows)

(***************************************************************************)
(* The statements.                                                         *)
(***************************************************************************)
\* A value of the aggregated JSON: the column is NUMERIC, j.equity::TEXT
\* makes it a JSON string, and a NULL column stays the JSON null.
JsonEquity(kind, equity) == [text |-> equity, json |-> kind]

\* The aggregate without the cast: a NUMERIC goes into the JSON as a number.
JsonAggJobsUncast(db, handle) ==
  LET Mine(j) == j.company_handle = handle
      mine == SelectSeq(db.jobs, Mine)
  IN  [i \in 1..Len(mine) |->
         [id |-> mine[i].id, equity |-> IF mine[i].equity # NullText
                     THEN JsonEquity("number", mine[i].equity)
                     ELSE JsonEquity("null", NullText), title |-> mine[i].title,
          salary |-> mine[i].salary]]

\* One json_build_object per job of the company, in table order.
JsonAggJobs(db, handle) ==
  LET Mine(j) == j.company_handle = handle
      mine == SelectSeq(db.jobs, Mine)
  IN  [i \in 1..Len(mine) |->
         [id |-> mine[i].id, equity |-> IF mine[i].equity # NullText
                     THEN JsonEquity("string", mine[i].equity)
                     ELSE JsonEquity("null", NullText), title |-> mine[i].title,
          salary |-> mine[i].salary]]

WithJobs(db, rows) ==
  [i \in 1..Len(rows) |->
     [jobs |-> JsonAggJobs(db, rows[i].handle), handle |-> rows[i].handle,
      name |-> rows[i].name,
      description |-> rows[i].description,
      num_employees |-> rows[i].num_employees,
      logo_url |-> rows[i].logo_url]]

ExecSelect(db, text, values) ==
  Strict(WhereRows(Table(db, text[2].s), text, values),
         LAMBDA found :
           LET order == Section(text, "ORDER BY", {})
           IN  IF IndexOf(text, Sym("LEFT JOIN jobs")) # 0 THEN Done(db, WithJobs(db, found))
               ELSE IF order = <<>> THEN Done(db, found)
               ELSE Done(db, OrderBy(found, order[1].s)))

\* An INSERT that takes the id from the sequence without advancing it.
InsertRowSameId(db, table, row) ==
  Constrained(db, WithTable(db, table, Append(Table(db, table), row)), <<row>>)

InsertRow(db, table, row) ==
  LET taken == IF table = "jobs" THEN [db EXCEPT !.jobSeq = @ + 1] ELSE db
  IN  Constrained(taken, WithTable(taken, table, Append(Table(db, table), row)), <<row>>)

ExecInsert(db, text, values) ==
  LET table == text[2].s
      vi == IndexOf(text, Sym("VALUES"))
      given == [c \in {text[i].s : i \in 3..(vi - 1)} |->
                  Operand(text[vi + (CHOOSE i \in 3..(vi - 1) : text[i].s = c) - 2], values)]
  IN  Strict(IF table = "jobs"
             THEN [c \in DOMAIN given \cup {"id"} |->
                     IF c = "id" THEN db.jobSeq ELSE given[c]]
             ELSE given,
             LAMBDA row : InsertRow(db, table, row))

\* The rows of `old` at the positions `hits` replaced by their new versions.
UpdateRows(db, table, old, hits, sets, values) ==
  LET New(r) == [c \in DOMAIN r |->
                   IF \E i \in 1..Len(sets) : sets[i][1].s = c
                   THEN Operand(sets[CHOOSE i \in 1..Len(sets) : sets[i][1].s = c][3], values)
                   ELSE r[c]]
  IN  Strict([i \in 1..Len(old) |-> IF i \in hits THEN New(old[i]) ELSE old[i]],
             LAMBDA new :
               Constrained(db, WithTable(db, table, new),
                           [i \in 1..Cardinality(hits) |->
                              new[CHOOSE k \in hits : Cardinality({h \in hits : h <= k}) = i]]))

ExecUpdate(db, text, values) ==
  Strict(<<Split(Section(text, "SET", {"WHERE"}), Sym(",")),
           Split(Section(text, "WHERE", {"ORDER BY"}), Sym("AND")),
           Table(db, text[2].s)>>,
         LAMBDA p :
           IF p[1] = <<>> THEN Failed(db, "42601")
           ELSE IF \E i \in 1..Len(p[1]) : p[1][i][1].s \notin TableCols(text[2].s)
           THEN Failed(db, "42703")
           ELSE UpdateRows(db, text[2].s, p[3],
                           {i \in 1..Len(p[3]) :
                              \A k \in 1..Len(p[2]) : EvalClause(p[3][i], p[2][k], values)},
                           p[1], values))

ExecDelete(db, text, values) ==
  Strict(WhereRows(Table(db, text[2].s), text, values),
         LAMBDA hit :
           LET Miss(r) == \A i \in 1..Len(hit) : hit[i] # r
           IN  Done(Cascade(WithTable(db, text[2].s,
                                      SelectSeq(Table(db, text[2].s), Miss))), hit))

Run(db, text, values) ==
  IF BindError(text, values) THEN Failed(db, "08P01")
  ELSE CASE text[1].s = "SELECT" -> ExecSelect(db, text, values)
         [] text[1].s = "INSERT" -> ExecInsert(db, text, values)
         [] text[1].s = "UPDATE" -> ExecUpdate(db, text, values)
         [] text[1].s = "DELETE" -> ExecDelete(db, text, values)

\* db.query(text, values) against the database db.
dbQuery(db, text, values) ==
  Strict(<<db, text, values>>, LAMBDA a : Run(a[1], a[2], a[3]))

(***************************************************************************)
(* Outcomes of a repository call: it returns a value or throws; nq counts  *)
(* the statements it sent to the database, db is the database it leaves.   *)
(***************************************************************************)
Returned(db, ret, nq) == [msg |-> "", out |-> "ok", db |-> db, ret |-> ret, nq |-> nq]
Thrown(db, e, nq) == [msg |-> e.msg, out |-> e.out, db |-> db, ret |-> Nothing, nq |-> nq]
\* An error of the storage engine that no handler catches.
DbError(code) == [msg |-> code, out |-> "Error"]

CompanyShape(r) ==
  [handle |-> r.handle, name |-> r.name, description |-> r.description,
   numEmployees |-> r.num_employees, logoUrl |-> r.logo_url]

JobShape(r) ==
  [id |-> r.id, equity |-> r.equity, title |-> r.title, salary |-> r.salary,
   companyHandle |-> r.company_handle]

Present(obj, key) == key \in DOMAIN obj

(***************************************************************************)
(* models/company.js                                                       *)
(***************************************************************************)
CompanyDuplicateCheck(db, handle) ==
  dbQuery(db, <<Sym("SELECT"), Id("companies"), Sym("WHERE"),
                Id("handle"), Sym("="), Ph(1)>>, <<handle>>)

\* The INSERT of Company.create binding description and logoUrl in each
\* other's place.
CompanyInsertSwapped(db, data) ==
  dbQuery(db, <<Sym("INSERT"), Id("companies"), Id("handle"), Id("name"),
                Id("description"), Id("num_employees"), Id("logo_url"),
                Sym("VALUES"), Ph(1), Ph(2), Ph(3), Ph(4), Ph(5)>>,
          <<data.handle, data.name, data.logoUrl, data.numEmployees, data.description>>)

CompanyInsert(db, data) ==
  dbQuery(db, <<Sym("INSERT"), Id("companies"), Id("handle"), Id("name"),
                Id("description"), Id("num_employees"), Id("logo_url"),
                Sym("VALUES"), Ph(1), Ph(2), Ph(3), Ph(4), Ph(5)>>,
          <<data.handle, data.name, data.description, data.numEmployees, data.logoUrl>>)

\* Company.create without its duplicate check.
CompanyCreateUnchecked(db, data) ==
  Strict(CompanyInsert(db, data),
         LAMBDA result :
           IF result.err # "" THEN Thrown(result.db, DbError(result.err), 1)
           ELSE Returned(result.db, CompanyShape(result.rows[1]), 1))

CompanyCreate(db, data) ==
  Strict(CompanyDuplicateCheck(db, data.handle),
         LAMBDA duplicateCheck :
           IF duplicateCheck.err # "" THEN Thrown(db, DbError(duplicateCheck.err), 1)
           ELSE IF Len(duplicateCheck.rows) > 0
           THEN Thrown(db, BadRequestError("Duplicate company"), 1)
           ELSE Strict(CompanyInsert(db, data),
                       LAMBDA result :
                         IF result.err # "" THEN Thrown(result.db, DbError(result.err), 2)
                         ELSE Returned(result.db, CompanyShape(result.rows[1]), 2)))

\* The fragments of Company.findAll with > for the lower bound.
CompanyFindAllBuildStrict(filters) ==
  LET v1 == IF Present(filters, "minEmployees") THEN <<filters.minEmployees>> ELSE <<>>
      w1 == IF Present(filters, "minEmployees")
            THEN <<<<Id("num_employees"), Sym(">"), Ph(Len(v1))>>>> ELSE <<>>
      v2 == IF Present(filters, "maxEmployees") THEN Append(v1, filters.maxEmployees) ELSE v1
      w2 == IF Present(filters, "maxEmployees")
            THEN Append(w1, <<Id("num_employees"), Sym("<="), Ph(Len(v2))>>) ELSE w1
      named == Present(filters, "name") /\ filters.name # <<>>
      v3 == IF named THEN Append(v2, <<"%">> \o filters.name \o <<"%">>) ELSE v2
      w3 == IF named THEN Append(w2, <<Id("name"), Sym("ILIKE"), Ph(Len(v3))>>) ELSE w2
  IN  [whereClauses |-> w3, queryValues |-> v3]

\* Company.findAll applying every supplied name, the empty string included.
CompanyFindAllBuildAnyName(filters) ==
  LET v1 == IF Present(filters, "minEmployees") THEN <<filters.minEmployees>> ELSE <<>>
      w1 == IF Present(filters, "minEmployees")
            THEN <<<<Id("num_employees"), Sym(">="), Ph(Len(v1))>>>> ELSE <<>>
      v2 == IF Present(filters, "maxEmployees") THEN Append(v1, filters.maxEmployees) ELSE v1
      w2 == IF Present(filters, "maxEmployees")
            THEN Append(w1, <<Id("num_employees"), Sym("<="), Ph(Len(v2))>>) ELSE w1
      named == Present(filters, "name")
      v3 == IF named THEN Append(v2, <<"%">> \o filters.name \o <<"%">>) ELSE v2
      w3 == IF named THEN Append(w2, <<Id("name"), Sym("ILIKE"), Ph(Len(v3))>>) ELSE w2
  IN  [whereClauses |-> w3, queryValues |-> v3]

\* The fragments and values findAll has built when it reaches its range check.
CompanyFindAllBuild(filters) ==
  LET v1 == IF Present(filters, "minEmployees") THEN <<filters.minEmployees>> ELSE <<>>
      w1 == IF Present(filters, "minEmployees")
            THEN <<<<Id("num_employees"), Sym(">="), Ph(Len(v1))>>>> ELSE <<>>
      v2 == IF Present(filters, "maxEmployees") THEN Append(v1, filters.maxEmployees) ELSE v1
      w2 == IF Present(filters, "maxEmployees")
            THEN Append(w1, <<Id("num_employees"), Sym("<="), Ph(Len(v2))>>) ELSE w1
      named == Present(filters, "name") /\ filters.name # <<>>
      v3 == IF named THEN Append(v2, <<"%">> \o filters.name \o <<"%">>) ELSE v2
      w3 == IF named THEN Append(w2, <<Id("name"), Sym("ILIKE"), Ph(Len(v3))>>) ELSE w2
  IN  [whereClauses |-> w3, queryValues |-> v3]

\* Company.findAll without its ORDER BY.
CompanyFindAllQueryUnordered(built) ==
  <<Sym("SELECT"), Id("companies")>>
    \o (IF Len(built.whereClauses) > 0
        THEN <<Sym("WHERE")>> \o Join(built.whereClauses, Sym("AND"))
        ELSE <<>>)

CompanyFindAllQuery(built) ==
  <<Sym("SELECT"), Id("companies")>>
    \o (IF Len(built.whereClauses) > 0
        THEN <<Sym("WHERE")>> \o Join(built.whereClauses, Sym("AND"))
        ELSE <<>>)
    \o <<Sym("ORDER BY"), Id("name")>>

\* Company.findAll without its comparison of the two bounds.
CompanyFindAllUnchecked(db, filters) ==
  Strict(CompanyFindAllBuild(filters),
         LAMBDA built :
           Strict(dbQuery(db, CompanyFindAllQuery(built), built.queryValues),
                  LAMBDA companiesRes :
                    IF companiesRes.err # ""
                    THEN Thrown(db, DbError(companiesRes.err), 1)
                    ELSE Returned(db, [i \in 1..Len(companiesRes.rows) |->
                                         CompanyShape(companiesRes.rows[i])], 1)))

CompanyFindAll(db, filters) ==
  Strict(CompanyFindAllBuild(filters),
         LAMBDA built :
           IF /\ Present(filters, "minEmployees") /\ Present(filters, "maxEmployees")
              /\ filters.minEmployees > filters.maxEmployees
           THEN Thrown(db, BadRequestError(
                             "minEmployees cannot be greater than maxEmployees"), 0)
           ELSE Strict(dbQuery(db, CompanyFindAllQuery(built), built.queryValues),
                       LAMBDA companiesRes :
                         IF companiesRes.err # ""
                         THEN Thrown(db, DbError(companiesRes.err), 1)
                         ELSE Returned(db, [i \in 1..Len(companiesRes.rows) |->
                                              CompanyShape(companiesRes.rows[i])], 1)))

CompanyGet(db, handle) ==
  Strict(dbQuery(db, <<Sym("SELECT"), Id("companies"), Sym("LEFT JOIN jobs"),
                       Sym("WHERE"), Id("handle"), Sym("="), Ph(1)>>, <<handle>>),
         LAMBDA result :
           IF result.err # "" THEN Thrown(db, DbError(result.err), 1)
           ELSE IF Len(result.rows) = 0 THEN Thrown(db, NotFoundError("No company"), 1)
           ELSE Returned(db, [jobs |-> result.rows[1].jobs,
                              handle |-> result.rows[1].handle,
                              name |-> result.rows[1].name,
                              description |-> result.rows[1].description,
                              numEmployees |-> result.rows[1].num_employees,
                              logoUrl |-> result.rows[1].logo_url], 1))

\* The UPDATE statement of Company.update for the compiled fragment sql.
\* The UPDATE with the key bound to the last placeholder of the SET list.
CompanyUpdateQueryKeyAtN(sql) ==
  <<Sym("UPDATE"), Id("companies"), Sym("SET")>> \o sql.setCols
    \o <<Sym("WHERE"), Id("handle"), Sym("="), Ph(Len(sql.values))>>

CompanyUpdateQuery(sql) ==
  <<Sym("UPDATE"), Id("companies"), Sym("SET")>> \o sql.setCols
    \o <<Sym("WHERE"), Id("handle"), Sym("="), Ph(Len(sql.values) + 1)>>

\* Company.update without its test that a row came back.
CompanyUpdateUnchecked(db, handle, data) ==
  Strict(sqlForPartialUpdate(data, [numEmployees |-> "num_employees",
                                    logoUrl |-> "logo_url"]),
         LAMBDA sql :
           IF sql.out # "ok" THEN Thrown(db, sql, 0)
           ELSE Strict(dbQuery(db, CompanyUpdateQuery(sql), Append(sql.values, handle)),
                       LAMBDA result :
                         IF result.err # "" THEN Thrown(result.db, DbError(result.err), 1)
                         ELSE IF Len(result.rows) = 0
                         THEN Returned(result.db, Nothing, 1)
                         ELSE Returned(result.db, CompanyShape(result.rows[1]), 1)))

\* Company.update with logoUrl mapped to the wrong column.
CompanyUpdateMismapped(db, handle, data) ==
  Strict(sqlForPartialUpdate(data, [numEmployees |-> "num_employees",
                                    logoUrl |-> "description"]),
         LAMBDA sql :
           IF sql.out # "ok" THEN Thrown(db, sql, 0)
           ELSE Strict(dbQuery(db, CompanyUpdateQuery(sql), Append(sql.values, handle)),
                       LAMBDA result :
                         IF result.err # "" THEN Thrown(result.db, DbError(result.err), 1)
                         ELSE IF Len(result.rows) = 0
                         THEN Thrown(result.db, NotFoundError("No company"), 1)
                         ELSE Returned(result.db, CompanyShape(result.rows[1]), 1)))

CompanyUpdate(db, handle, data) ==
  Strict(sqlForPartialUpdate(data, [numEmployees |-> "num_employees",
                                    logoUrl |-> "logo_url"]),
         LAMBDA sql :
           IF sql.out # "ok" THEN Thrown(db, sql, 0)
           ELSE Strict(dbQuery(db, CompanyUpdateQuery(sql), Append(sql.values, handle)),
                       LAMBDA result :
                         IF result.err # "" THEN Thrown(result.db, DbError(result.err), 1)
                         ELSE IF Len(result.rows) = 0
                         THEN Thrown(result.db, NotFoundError("No company"), 1)
                         ELSE Returned(result.db, CompanyShape(result.rows[1]), 1)))

CompanyRemove(db, handle) ==
  Strict(dbQuery(db, <<Sym("DELETE"), Id("companies"), Sym("WHERE"),
                       Id("handle"), Sym("="), Ph(1)>>, <<handle>>),
         LAMBDA result :
           IF result.err # "" THEN Thrown(result.db, DbError(result.err), 1)
           ELSE IF Len(result.rows) = 0
           THEN Thrown(result.db, NotFoundError("No company"), 1)
           ELSE Returned(result.db, Nothing, 1))

(***************************************************************************)
(* models/job.js                                                           *)
(***************************************************************************)
JobCreate(db, data) ==
  Strict(dbQuery(db, <<Sym("INSERT"), Id("jobs"), Id("title"), Id("salary"),
                       Id("equity"), Id("company_handle"),
                       Sym("VALUES"), Ph(1), Ph(2), Ph(3), Ph(4)>>,
                 <<data.title, data.salary, data.equity, data.companyHandle>>),
         LAMBDA result :
           IF result.err # "" THEN Thrown(result.db, DbError(result.err), 1)
           ELSE Returned(result.db, JobShape(result.rows[1]), 1))

\* The fragments of Job.findAll with the equity clause added whenever hasEquity
\* is supplied.
JobFindAllBuildAnyEquity(filters) ==
  LET v1 == IF Present(filters, "title")
            THEN <<<<"%">> \o filters.title \o <<"%">>>> ELSE <<>>
      w1 == IF Present(filters, "title")
            THEN <<<<Id("title"), Sym("ILIKE"), Ph(Len(v1))>>>> ELSE <<>>
      v2 == IF Present(filters, "minSalary") THEN Append(v1, filters.minSalary) ELSE v1
      w2 == IF Present(filters, "minSalary")
            THEN Append(w1, <<Id("salary"), Sym(">="), Ph(Len(v2))>>) ELSE w1
      w3 == IF Present(filters, "hasEquity")
            THEN Append(w2, <<Id("equity"), Sym(">"), Lit(0)>>) ELSE w2
  IN  [whereClauses |-> w3, queryValues |-> v2]

\* Job.findAll numbering the salary placeholder before its value is pushed.
JobFindAllBuildEarly(filters) ==
  LET v1 == IF Present(filters, "title")
            THEN <<<<"%">> \o filters.title \o <<"%">>>> ELSE <<>>
      w1 == IF Present(filters, "title")
            THEN <<<<Id("title"), Sym("ILIKE"), Ph(Len(v1))>>>> ELSE <<>>
      v2 == IF Present(filters, "minSalary") THEN Append(v1, filters.minSalary) ELSE v1
      w2 == IF Present(filters, "minSalary")
            THEN Append(w1, <<Id("salary"), Sym(">="), Ph(Len(v1))>>) ELSE w1
      w3 == IF Present(filters, "hasEquity") /\ filters.hasEquity = TRUE
            THEN Append(w2, <<Id("equity"), Sym(">"), Lit(0)>>) ELSE w2
  IN  [whereClauses |-> w3, queryValues |-> v2]

JobFindAllBuild(filters) ==
  LET v1 == IF Present(filters, "title")
            THEN <<<<"%">> \o filters.title \o <<"%">>>> ELSE <<>>
      w1 == IF Present(filters, "title")
            THEN <<<<Id("title"), Sym("ILIKE"), Ph(Len(v1))>>>> ELSE <<>>
      v2 == IF Present(filters, "minSalary") THEN Append(v1, filters.minSalary) ELSE v1
      w2 == IF Present(filters, "minSalary")
            THEN Append(w1, <<Id("salary"), Sym(">="), Ph(Len(v2))>>) ELSE w1
      w3 == IF Present(filters, "hasEquity") /\ filters.hasEquity = TRUE
            THEN Append(w2, <<Id("equity"), Sym(">"), Lit(0)>>) ELSE w2
  IN  [whereClauses |-> w3, queryValues |-> v2]

JobFindAllQuery(built) ==
  <<Sym("SELECT"), Id("jobs")>>
    \o (IF Len(built.whereClauses) > 0
        THEN <<Sym("WHERE")>> \o Join(built.whereClauses, Sym("AND"))
        ELSE <<>>)
    \o <<Sym("ORDER BY"), Id("id")>>

JobFindAll(db, filters) ==
  Strict(JobFindAllBuild(filters),
         LAMBDA built :
           Strict(dbQuery(db, JobFindAllQuery(built), built.queryValues),
                  LAMBDA results :
                    IF results.err # "" THEN Thrown(db, DbError(results.err), 1)
                    ELSE Returned(db, [i \in 1..Len(results.rows) |->
                                         JobShape(results.rows[i])], 1)))

\* Job.get without its test that a row came back.
JobGetUnchecked(db, id) ==
  Strict(dbQuery(db, <<Sym("SELECT"), Id("jobs"), Sym("WHERE"),
                       Id("id"), Sym("="), Ph(1)>>, <<id>>),
         LAMBDA jobRes :
           IF jobRes.err # "" THEN Thrown(db, DbError(jobRes.err), 1)
           ELSE IF Len(jobRes.rows) = 0 THEN Returned(db, Nothing, 1)
           ELSE Returned(db, JobShape(jobRes.rows[1]), 1))

JobGet(db, id) ==
  Strict(dbQuery(db, <<Sym("SELECT"), Id("jobs"), Sym("WHERE"),
                       Id("id"), Sym("="), Ph(1)>>, <<id>>),
         LAMBDA jobRes :
           IF jobRes.err # "" THEN Thrown(db, DbError(jobRes.err), 1)
           ELSE IF Len(jobRes.rows) = 0
           THEN Thrown(db, NotFoundError("No job found with id"), 1)
           ELSE Returned(db, JobShape(jobRes.rows[1]), 1))

\* The UPDATE statement of Job.update for the compiled fragment sql.
JobUpdateQuery(sql) ==
  <<Sym("UPDATE"), Id("jobs"), Sym("SET")>> \o sql.setCols
    \o <<Sym("WHERE"), Id("id"), Sym("="), Ph(Len(sql.values) + 1)>>

JobUpdate(db, id, data) ==
  Strict(sqlForPartialUpdate(data, <<>>),
         LAMBDA sql :
           IF sql.out # "ok" THEN Thrown(db, sql, 0)
           ELSE Strict(dbQuery(db, JobUpdateQuery(sql), Append(sql.values, id)),
                       LAMBDA result :
                         IF result.err # "" THEN Thrown(result.db, DbError(result.err), 1)
                         ELSE IF Len(result.rows) = 0
                         THEN Thrown(result.db, NotFoundError("No job"), 1)
                         ELSE Returned(result.db, JobShape(result.rows[1]), 1)))

\* Job.remove without its test that a row came back.
JobRemoveUnchecked(db, id) ==
  Strict(dbQuery(db, <<Sym("DELETE"), Id("jobs"), Sym("WHERE"),
                       Id("id"), Sym("="), Ph(1)>>, <<id>>),
         LAMBDA result :
           IF result.err # "" THEN Thrown(result.db, DbError(result.err), 1)
           ELSE Returned(result.db, Nothing, 1))

JobRemove(db, id) ==
  Strict(dbQuery(db, <<Sym("DELETE"), Id("jobs"), Sym("WHERE"),
                       Id("id"), Sym("="), Ph(1)>>, <<id>>),
         LAMBDA result :
           IF result.err # "" THEN Thrown(result.db, DbError(result.err), 1)
           ELSE IF Len(result.rows) = 0 THEN Thrown(result.db, NotFoundError("No job"), 1)
           ELSE Returned(result.db, Nothing, 1))

(***************************************************************************)
(* State.  companies, jobs, jobSeq and users are the database; last is the *)
(* most recent call or request with its outcome; input is the argument of  *)
(* the pure function under test; calls holds the requests in flight.       *)
(***************************************************************************)
DB == [companies |-> companies, jobs |-> jobs, jobSeq |-> jobSeq]

NoCall == [msg |-> "", out |-> "", op |-> "none", ret |-> Nothing, nq |-> 0, args |-> Nothing]
NoInput == [dataToUpdate |-> <<>>, jsToSql |-> <<>>]
Idle == [msg |-> "", out |-> "", ret |-> Nothing, nq |-> 0, data |-> Nothing, pc |-> "idle"]

Procs == {1, 2}

Commit(op, args, r) ==
  /\ companies' = r.db.companies
  /\ jobs' = r.db.jobs
  /\ jobSeq' = r.db.jobSeq
  /\ last' = [msg |-> r.msg, out |-> r.out, op |-> op, ret |-> r.ret,
              nq |-> r.nq, args |-> args]
  /\ UNCHANGED <<users, input, calls>>

Restrict(f, S) == [k \in S |-> f[k]]

NumVals == Nums \cup {NullNum}
LogoVals == Logos \cup {NullText}

\* The values an update may give to each field, per field in a fixed order.
CompanyFields ==
  [name |-> <<<<"N">>, <<"N", "e">>>>,
   numEmployees |-> [i \in 1..(MaxEmployees + 2) |-> i - 2],
   logoUrl |-> <<NullText, "http://c1.img">>]

JobFields ==
  [equity |-> <<NullText, "0", "0.01">>,
   title |-> <<<<"N">>, <<"P", "h">>>>,
   salary |-> [i \in 1..(MaxSalary + 1) |-> IF i = 1 THEN NullNum ELSE i - 1]]

AllFields ==
  [equity |-> JobFields.equity, title |-> JobFields.title,
   salary |-> JobFields.salary, name |-> CompanyFields.name,
   numEmployees |-> CompanyFields.numEmployees, logoUrl |-> CompanyFields.logoUrl]

\* The ways to write a JS object with at most MaxKeys of the fields, no key
\* twice: the keys in insertion order, each with the index of its value.
Choices(fields) ==
  LET most == CHOOSE n \in {Len(fields[k]) : k \in DOMAIN fields} :
                \A k \in DOMAIN fields : Len(fields[k]) <= n
  IN  {c \in UNION {[1..n -> (DOMAIN fields) \X (1..most)] : n \in 0..MaxKeys} :
         /\ \A i \in 1..Len(c) : c[i][2] <= Len(fields[c[i][1]])
         /\ \A i, j \in 1..Len(c) : i # j => c[i][1] # c[j][1]}

Object(fields, c) == [i \in 1..Len(c) |-> [v |-> fields[c[i][1]][c[i][2]], k |-> c[i][1]]]

InitDb ==
  /\ companies = <<>>
  /\ jobs = <<>>
  /\ jobSeq = 1
  /\ users = <<>>
  /\ last = NoCall
  /\ calls = [p \in Procs |-> Idle]

(***************************************************************************)
(* The partial-update compiler applied to every small input.               *)
(***************************************************************************)
JsToSqls == <<<<>>, [numEmployees |-> "num_employees", logoUrl |-> "logo_url"]>>

InitSql ==
  /\ InitDb
  /\ \E c \in Choices(AllFields), m \in 1..Len(JsToSqls) :
       input = [dataToUpdate |-> Object(AllFields, c), jsToSql |-> JsToSqls[m]]

SqlApply ==
  /\ last = NoCall
  /\ \E r \in {sqlForPartialUpdate(input.dataToUpdate, input.jsToSql)} :
       last' = [msg |-> r.msg, out |-> r.out, op |-> "sqlForPartialUpdate",
                ret |-> r, nq |-> 0, args |-> input]
  /\ UNCHANGED <<companies, jobs, jobSeq, users, input, calls>>

NextSql == SqlApply

SpecSql == InitSql /\ [][NextSql]_vars

(***************************************************************************)
(* Repository calls made one after the other.  Each action is one whole    *)
(* call; its arguments are drawn from the sets it is given.                *)
(***************************************************************************)
CompanyData(handles, names, nums, logos) ==
  {[handle |-> h, name |-> n, description |-> d, numEmployees |-> e, logoUrl |-> l] :
     h \in handles, n \in names, d \in Descs, e \in nums, l \in logos}

JobData(titles, salaries, equities, handles) ==
  {[equity |-> e, title |-> t, salary |-> s, companyHandle |-> h] :
     t \in titles, s \in salaries, e \in equities, h \in handles}

CompanyCreateCall(datas) ==
  \E data \in datas : \E r \in {CompanyCreate(DB, data)} : Commit("Company.create", data, r)

\* The values a filter key ranges over: none of interest when the key is absent.
Pick(S, key, values) == IF key \in S THEN values ELSE {CHOOSE v \in values : TRUE}

CompanyFindAllCall(mins, maxs, names) ==
  \E S \in SUBSET {"minEmployees", "maxEmployees", "name"} :
    \E mn \in Pick(S, "minEmployees", mins), mx \in Pick(S, "maxEmployees", maxs),
       nm \in Pick(S, "name", names) :
      LET filters == Restrict([k \in {"minEmployees", "maxEmployees", "name"} |->
                                 CASE k = "minEmployees" -> mn
                                   [] k = "maxEmployees" -> mx
                                   [] OTHER -> nm], S)
      IN  \E r \in {CompanyFindAll(DB, filters)} : Commit("Company.findAll", filters, r)

CompanyGetCall(handles) ==
  \E handle \in handles :
    \E r \in {CompanyGet(DB, handle)} : Commit("Company.get", [key |-> handle], r)

CompanyUpdateCall(handles, fields) ==
  \E handle \in handles, c \in Choices(fields) : \E data \in {Object(fields, c)} :
    \E r \in {CompanyUpdate(DB, handle, data)} :
      Commit("Company.update", [key |-> handle, data |-> data], r)

CompanyRemoveCall(handles) ==
  \E handle \in handles :
    \E r \in {CompanyRemove(DB, handle)} : Commit("Company.remove", [key |-> handle], r)

JobCreateCall(datas) ==
  /\ jobSeq <= MaxJobId
  /\ \E data \in datas : \E r \in {JobCreate(DB, data)} : Commit("Job.create", data, r)

JobFindAllCall(titles, mins) ==
  \E S \in SUBSET {"title", "minSalary", "hasEquity"} :
    \E tt \in Pick(S, "title", titles), mn \in Pick(S, "minSalary", mins),
       he \in Pick(S, "hasEquity", BOOLEAN) :
      LET filters == Restrict([k \in {"title", "minSalary", "hasEquity"} |->
                                 CASE k = "title" -> tt
                                   [] k = "minSalary" -> mn
                                   [] OTHER -> he], S)
      IN  \E r \in {JobFindAll(DB, filters)} : Commit("Job.findAll", filters, r)

JobGetCall(ids) ==
  \E id \in ids : \E r \in {JobGet(DB, id)} : Commit("Job.get", [key |-> id], r)

JobUpdateCall(ids, fields) ==
  \E id \in ids, c \in Choices(fields) : \E data \in {Object(fields, c)} :
    \E r \in {JobUpdate(DB, id, data)} :
      Commit("Job.update", [key |-> id, data |-> data], r)

JobRemoveCall(ids) ==
  \E id \in ids : \E r \in {JobRemove(DB, id)} : Commit("Job.remove", [key |-> id], r)

JobIds == 0..MaxJobId

(***************************************************************************)
(* Spec: the create, get, update and remove calls of both repositories.    *)
(***************************************************************************)
SpecCompanyFields == [name |-> <<<<"N", "e">>>>]
SpecJobFields == [title |-> <<<<"P", "h">>>>]

Init == InitDb /\ input = NoInput

Next ==
  \/ CompanyCreateCall(CompanyData(Handles, {<<"N">>}, {1}, Logos))
  \/ CompanyGetCall(Handles)
  \/ CompanyUpdateCall(Handles, SpecCompanyFields)
  \/ CompanyRemoveCall(Handles)
  \/ JobCreateCall(JobData({<<"N">>}, {1}, {"0.01"}, Handles))
  \/ JobGetCall(JobIds)
  \/ JobUpdateCall(JobIds, SpecJobFields)
  \/ JobRemoveCall(JobIds)

Spec == Init /\ [][Next]_vars

(***************************************************************************)
(* SpecCompany: creating, reading and removing companies of every shape.   *)
(***************************************************************************)
NextCompany ==
  \/ CompanyCreateCall(CompanyData(Handles, Names, NumVals, LogoVals))
  \/ CompanyGetCall(Handles)
  \/ CompanyRemoveCall(Handles)

SpecCompany == Init /\ [][NextCompany]_vars

(***************************************************************************)
(* SpecFind: Company.findAll under every filter, over varied companies.    *)
(***************************************************************************)
NameFilters == {<<>>, <<"e">>, <<"n">>}

NextFind ==
  \/ CompanyCreateCall(CompanyData(Handles, Names, {NullNum, 1, MaxEmployees}, Logos))
  \/ CompanyFindAllCall(Nums, Nums, NameFilters)

SpecFind == Init /\ [][NextFind]_vars

(***************************************************************************)
(* SpecJobFind: Job.findAll under every filter, over varied jobs.          *)
(***************************************************************************)
TitleFilters == {<<>>, <<"n">>, <<"h">>}

SpecJobs ==
  {[equity |-> "0.01", title |-> <<"N">>, salary |-> 1, companyHandle |-> "c1"],
   [equity |-> "0", title |-> <<"N">>, salary |-> MaxSalary, companyHandle |-> "c1"],
   [equity |-> NullText, title |-> <<"N">>, salary |-> MaxSalary, companyHandle |-> "c1"],
   [equity |-> "0", title |-> <<"P", "h">>, salary |-> 1, companyHandle |-> "c1"],
   [equity |-> "0.01", title |-> <<"P", "h">>, salary |-> MaxSalary, companyHandle |-> "c1"],
   [equity |-> NullText, title |-> <<"P", "h">>, salary |-> 1, companyHandle |-> "c1"]}

NextJobFind ==
  \/ CompanyCreateCall(CompanyData({"c1"}, {<<"N">>}, {1}, Logos))
  \/ JobCreateCall(SpecJobs)
  \/ JobFindAllCall(TitleFilters, Salaries)

SpecJobFind == Init /\ [][NextJobFind]_vars

(***************************************************************************)
(* SpecRace: two requests run Company.create at once.  A request gives up  *)
(* the thread at each await, so its duplicate check and its INSERT are two *)
(* steps, and the other request may run between them.                      *)
(***************************************************************************)
RaceDatas == CompanyData(Handles, Names, {1, MaxEmployees}, Logos)

Settle(p, data, r) ==
  calls' = [calls EXCEPT ![p] = [msg |-> r.msg, out |-> r.out, ret |-> r.ret,
                                 nq |-> r.nq, data |-> data, pc |-> "done"]]

\* Company.create up to the answer of its duplicate check.
CompanyCreateCheck(p) ==
  /\ calls[p].pc = "idle"
  /\ \E data \in RaceDatas :
       \E duplicateCheck \in {CompanyDuplicateCheck(DB, data.handle)} :
         IF duplicateCheck.err # ""
         THEN Settle(p, data, Thrown(DB, DbError(duplicateCheck.err), 1))
         ELSE IF Len(duplicateCheck.rows) > 0
         THEN Settle(p, data, Thrown(DB, BadRequestError("Duplicate company"), 1))
         ELSE calls' = [calls EXCEPT ![p] = [msg |-> "", out |-> "", ret |-> Nothing,
                                            nq |-> 1, data |-> data, pc |-> "checked"]]
  /\ UNCHANGED <<companies, jobs, jobSeq, users, input, last>>

\* Company.create from its INSERT to its end.
CompanyCreateInsert(p) ==
  /\ calls[p].pc = "checked"
  /\ \E result \in {CompanyInsert(DB, calls[p].data)} :
       /\ companies' = result.db.companies
       /\ jobs' = result.db.jobs
       /\ jobSeq' = result.db.jobSeq
       /\ IF result.err # ""
          THEN Settle(p, calls[p].data, Thrown(result.db, DbError(result.err), 2))
          ELSE Settle(p, calls[p].data,
                      Returned(result.db, CompanyShape(result.rows[1]), 2))
  /\ UNCHANGED <<users, input, last>>

NextRace == \E p \in Procs : CompanyCreateCheck(p) \/ CompanyCreateInsert(p)

SpecRace == Init /\ [][NextRace]_vars

(***************************************************************************)
(* SpecUpdate: Company.update and Job.update over the seeded tables, with  *)
(* data that names several fields and sets some to null.                   *)
(***************************************************************************)
SeedCompanies ==
  <<[handle |-> "c1", name |-> <<"N">>, description |-> "Desc1",
     num_employees |-> 1, logo_url |-> "http://c1.img"],
    [handle |-> "c2", name |-> <<"N", "e">>, description |-> "Desc1",
     num_employees |-> 0, logo_url |-> "http://c1.img"]>>

SeedJobs ==
  <<[id |-> 1, company_handle |-> "c1", equity |-> "0.01", title |-> <<"N">>,
     salary |-> 1],
    [id |-> 2, company_handle |-> "c2", equity |-> "0", title |-> <<"P", "h">>,
     salary |-> 1]>>

InitSeeded ==
  /\ companies = SeedCompanies
  /\ jobs = SeedJobs
  /\ jobSeq = Len(SeedJobs) + 1
  /\ users = <<>>
  /\ last = NoCall
  /\ calls = [p \in Procs |-> Idle]
  /\ input = NoInput

UpdateCompanyFields ==
  [numEmployees |-> <<NullNum, MaxEmployees>>, logoUrl |-> <<NullText>>]

UpdateJobFields == [equity |-> <<NullText>>, salary |-> <<NullNum>>]

NextUpdate ==
  \/ CompanyUpdateCall(Handles, UpdateCompanyFields)
  \/ JobUpdateCall(1..Len(SeedJobs), UpdateJobFields)

SpecUpdate == InitSeeded /\ [][NextUpdate]_vars

(***************************************************************************)
(* SpecSteps: Company.findAll statement by statement: the fragments and    *)
(* values are built, then the two bounds are compared, then the statement  *)
(* is sent.  A call keeps its filters, whereClauses and queryValues.       *)
(***************************************************************************)
\* findAll from its entry to the end of the three filter blocks.
CompanyFindAllBuilt(p, mins, maxs, names) ==
  /\ calls[p].pc = "idle"
  /\ \E S \in SUBSET {"minEmployees", "maxEmployees", "name"} :
       \E mn \in Pick(S, "minEmployees", mins), mx \in Pick(S, "maxEmployees", maxs),
          nm \in Pick(S, "name", names) :
         LET filters == Restrict([k \in {"minEmployees", "maxEmployees", "name"} |->
                                    CASE k = "minEmployees" -> mn
                                      [] k = "maxEmployees" -> mx
                                      [] OTHER -> nm], S)
         IN  \E built \in {CompanyFindAllBuild(filters)} :
               calls' = [calls EXCEPT ![p] =
                           [msg |-> "", out |-> "", ret |-> Nothing, nq |-> 0,
                            data |-> [filters |-> filters,
                                      whereClauses |-> built.whereClauses,
                                      queryValues |-> built.queryValues],
                            pc |-> "built"]]
  /\ UNCHANGED <<companies, jobs, jobSeq, users, input, last>>

\* The comparison of the bounds, left out: every call goes on to its query.
CompanyFindAllCheckedNever(p) ==
  /\ calls[p].pc = "built"
  /\ calls' = [calls EXCEPT ![p].pc = "checked"]
  /\ UNCHANGED <<companies, jobs, jobSeq, users, input, last>>

\* The comparison of the two bounds.
CompanyFindAllChecked(p) ==
  /\ calls[p].pc = "built"
  /\ LET filters == calls[p].data.filters
     IN  IF /\ Present(filters, "minEmployees") /\ Present(filters, "maxEmployees")
            /\ filters.minEmployees > filters.maxEmployees
         THEN Settle(p, calls[p].data,
                     Thrown(DB, BadRequestError(
                                  "minEmployees cannot be greater than maxEmployees"), 0))
         ELSE calls' = [calls EXCEPT ![p].pc = "checked"]
  /\ UNCHANGED <<companies, jobs, jobSeq, users, input, last>>

\* The WHERE clause, the ORDER BY and the query.
CompanyFindAllQueried(p) ==
  /\ calls[p].pc = "checked"
  /\ \E companiesRes \in {dbQuery(DB, CompanyFindAllQuery(calls[p].data),
                                  calls[p].data.queryValues)} :
       IF companiesRes.err # ""
       THEN Settle(p, calls[p].data, Thrown(DB, DbError(companiesRes.err), 1))
       ELSE Settle(p, calls[p].data,
                   Returned(DB, [i \in 1..Len(companiesRes.rows) |->
                                   CompanyShape(companiesRes.rows[i])], 1))
  /\ UNCHANGED <<companies, jobs, jobSeq, users, input, last>>

NextSteps ==
  \E p \in Procs :
    \/ CompanyFindAllBuilt(p, Nums, Nums, NameFilters)
    \/ CompanyFindAllChecked(p)
    \/ CompanyFindAllQueried(p)

SpecSteps == InitSeeded /\ [][NextSteps]_vars

(***************************************************************************)
(* SpecGet: Company.get over the seeded tables while jobs lose their       *)
(* equity, move to the other company and are removed.                      *)
(***************************************************************************)
GetJobFields == [company_handle |-> <<"c1">>, equity |-> <<NullText>>]

NextGet ==
  \/ CompanyGetCall(Handles \cup {"nope"})
  \/ JobUpdateCall(1..Len(SeedJobs), GetJobFields)
  \/ JobRemoveCall(1..Len(SeedJobs))

SpecGet == InitSeeded /\ [][NextGet]_vars

(***************************************************************************)
(* SpecOrder: both findAll under every filter, over tables whose row order *)
(* is neither the order of the names nor the order of the ids (a table     *)
(* keeps no order of its own: an updated row moves).                       *)
(***************************************************************************)
InitOrder ==
  /\ companies = <<[SeedCompanies[1] EXCEPT !.name = <<"N", "e">>],
                   [SeedCompanies[2] EXCEPT !.name = <<"N">>]>>
  /\ jobs = <<SeedJobs[2], SeedJobs[1]>>
  /\ jobSeq = Len(SeedJobs) + 1
  /\ users = <<>>
  /\ last = NoCall
  /\ calls = [p \in Procs |-> Idle]
  /\ input = NoInput

NextOrder ==
  \/ CompanyFindAllCall(Nums, Nums, NameFilters)
  \/ JobFindAllCall(TitleFilters, Salaries)
  \/ CompanyRemoveCall(Handles)
  \/ JobRemoveCall(1..Len(SeedJobs))

SpecOrder == InitOrder /\ [][NextOrder]_vars

(***************************************************************************)
(* SpecKeys: create, update and remove of both repositories, where the     *)
(* data of an update may name a key column: update passes every key of     *)
(* data to the SET clause.                                                 *)
(***************************************************************************)
KeyCompanyFields == [handle |-> <<"c1", "c2">>, name |-> <<<<"N", "e">>>>]
KeyJobFields == [id |-> <<1, 2>>, company_handle |-> <<"c1", "c2">>]

NextKeys ==
  \/ CompanyCreateCall(CompanyData(Handles, {<<"N">>}, {1}, Logos))
  \/ CompanyUpdateCall(Handles, KeyCompanyFields)
  \/ CompanyRemoveCall(Handles)
  \/ JobCreateCall(JobData({<<"N">>}, {1}, {"0.01"}, Handles))
  \/ JobUpdateCall({1, 2}, KeyJobFields)
  \/ JobRemoveCall({1, 2})

SpecKeys == Init /\ [][NextKeys]_vars

(***************************************************************************)
(* The request layer.  A request carries a token; authenticateJWT leaves   *)
(* the token's payload in res.locals.user when the token is valid.  A      *)
(* store is the database with the users table; nq counts the queries of   *)
(* the repository operations a request reached (0: none was reached).      *)
(***************************************************************************)
UnauthorizedError(msg) == [msg |-> msg, out |-> "UnauthorizedError"]
ForbiddenError(msg) == [msg |-> msg, out |-> "ForbiddenError"]
\* A TypeError thrown inside a handler reaches next(err) like any other error.
TypeError(msg) == [msg |-> msg, out |-> "Error"]

UserTokens == {"u1", "u2"}
AdminTokens == {"admin1"}
Tokens == {"none", "bad"} \cup UserTokens \cup AdminTokens

\* res.locals after authenticateJWT: the payload of a valid token, or nothing.
authenticateJWT(token) ==
  IF token \in UserTokens \cup AdminTokens
  THEN <<[username |-> token, isAdmin |-> token \in AdminTokens]>>
  ELSE <<>>

Pass == [msg |-> "", out |-> "next"]

ensureLoggedIn(locals) ==
  IF Len(locals) = 0 THEN UnauthorizedError("Unauthorized") ELSE Pass

ensureAdmin(locals) ==
  IF Len(locals) = 0 \/ ~locals[1].isAdmin THEN ForbiddenError("Forbidden") ELSE Pass

ensureCorrectUserOrAdmin(locals, username) ==
  IF Len(locals) = 0 THEN UnauthorizedError("Unauthorized")
  ELSE IF ~(locals[1].isAdmin \/ locals[1].username = username)
  THEN ForbiddenError("Forbidden")
  ELSE Pass

(***************************************************************************)
(* The User repository.                                                    *)
(***************************************************************************)
Store == [users |-> users, db |-> DB]

HasUser(table, username) == \E i \in 1..Len(table) : table[i].username = username

UserShape(u) == [username |-> u.username, isAdmin |-> u.isAdmin, firstName |-> u.firstName]

UserRegister(store, data) ==
  IF HasUser(store.users, data.username)
  THEN Thrown(store, BadRequestError("Duplicate username"), 1)
  ELSE Returned([store EXCEPT !.users =
                   Append(@, [jobs |-> {}, username |-> data.username,
                              isAdmin |-> data.isAdmin, firstName |-> data.firstName])],
                [username |-> data.username, isAdmin |-> data.isAdmin,
                 firstName |-> data.firstName], 1)

UserFindAll(store) ==
  Returned(store, [i \in 1..Len(store.users) |-> UserShape(store.users[i])], 1)

UserGet(store, username) ==
  IF ~HasUser(store.users, username) THEN Thrown(store, NotFoundError("No user"), 1)
  ELSE Returned(store, CHOOSE u \in Range(store.users) : u.username = username, 1)

UserUpdate(store, username, data) ==
  IF ~HasUser(store.users, username) THEN Thrown(store, NotFoundError("No user"), 1)
  ELSE Strict([i \in 1..Len(store.users) |->
                 IF store.users[i].username = username
                 THEN [store.users[i] EXCEPT !.firstName = data.firstName]
                 ELSE store.users[i]],
              LAMBDA new :
                Returned([store EXCEPT !.users = new],
                         UserShape(CHOOSE u \in Range(new) : u.username = username), 1))

UserRemove(store, username) ==
  LET Other(u) == u.username # username
  IN  IF ~HasUser(store.users, username) THEN Thrown(store, NotFoundError("No user"), 1)
      ELSE Returned([store EXCEPT !.users = SelectSeq(@, Other)], Nothing, 1)

\* Applying again for the same job is left open: `again` is what then happens.
UserApplyForJob(store, username, jobId, again) ==
  IF \A i \in 1..Len(store.db.jobs) : store.db.jobs[i].id # jobId
  THEN Thrown(store, NotFoundError("No job"), 1)
  ELSE IF ~HasUser(store.users, username) THEN Thrown(store, NotFoundError("No user"), 1)
  ELSE IF \E i \in 1..Len(store.users) :
            store.users[i].username = username /\ jobId \in store.users[i].jobs
  THEN IF again = "ok" THEN Returned(store, [applied |-> jobId], 1)
       ELSE Thrown(store, DbError("23505"), 1)
  ELSE Returned([store EXCEPT !.users =
                   [i \in 1..Len(@) |->
                      IF @[i].username = username
                      THEN [@[i] EXCEPT !.jobs = @ \cup {jobId}] ELSE @[i]]],
                [applied |-> jobId], 1)

(***************************************************************************)
(* routes/users.js.  A route is its middleware followed by its handler;    *)
(* a middleware that throws ends the request before any repository call.   *)
(* body.valid is the verdict of the JSON schema on the request body.       *)
(***************************************************************************)
Gate(store, verdict, Handler(_)) ==
  IF verdict.out # "next" THEN Thrown(store, verdict, 0) ELSE Handler(store)

\* res.locals.user.username and res.locals.user.isAdmin, read by a handler.
Foreign(locals, username) == locals[1].username # username /\ ~locals[1].isAdmin

PostUsersTrusting(store, token, body) ==
  IF ~body.valid THEN Thrown(store, BadRequestError("invalid"), 0)
  ELSE UserRegister(store, [username |-> body.username, isAdmin |-> body.isAdmin = <<TRUE>>,
                            firstName |-> body.firstName])

PostUsers(store, token, body) ==
  IF ~body.valid THEN Thrown(store, BadRequestError("invalid"), 0)
  ELSE UserRegister(store, [username |-> body.username, isAdmin |-> FALSE,
                            firstName |-> body.firstName])

PostUsersAdminOpen(store, token, body) ==
  IF ~body.valid THEN Thrown(store, BadRequestError("invalid"), 0)
  ELSE UserRegister(store, [username |-> body.username, isAdmin |-> body.isAdmin = <<TRUE>>,
                            firstName |-> body.firstName])

PostUsersAdmin(store, token, body) ==
  Gate(store, ensureAdmin(authenticateJWT(token)),
       LAMBDA st :
         IF ~body.valid THEN Thrown(st, BadRequestError("invalid"), 0)
         ELSE UserRegister(st, [username |-> body.username, isAdmin |-> body.isAdmin = <<TRUE>>,
                                firstName |-> body.firstName]))

GetUsers(store, token) ==
  Gate(store, ensureAdmin(authenticateJWT(token)), LAMBDA st : UserFindAll(st))

GetUserHandler(store, locals, username) ==
  IF Len(locals) = 0 THEN Thrown(store, TypeError("TypeError"), 0)
  ELSE IF Foreign(locals, username)
  THEN Thrown(store, ForbiddenError("Unauthorized to view this user."), 0)
  ELSE UserGet(store, username)

GetUserOpen(store, token, username) ==
  GetUserHandler(store, authenticateJWT(token), username)

GetUser(store, token, username) ==
  Gate(store, ensureCorrectUserOrAdmin(authenticateJWT(token), username),
       LAMBDA st : GetUserHandler(st, authenticateJWT(token), username))

PatchUserHandler(store, locals, username, body) ==
  IF Len(locals) = 0 THEN Thrown(store, TypeError("TypeError"), 0)
  ELSE IF Foreign(locals, username)
  THEN Thrown(store, ForbiddenError("Unauthorized to update this user."), 0)
  ELSE IF ~body.valid THEN Thrown(store, BadRequestError("invalid"), 0)
  ELSE UserUpdate(store, username, [firstName |-> body.firstName])

\* PATCH /users/:username with the schema consulted ahead of its middleware.
PatchUserValidatedFirst(store, token, username, body) ==
  IF ~body.valid THEN Thrown(store, BadRequestError("invalid"), 0)
  ELSE Gate(store, ensureCorrectUserOrAdmin(authenticateJWT(token), username),
            LAMBDA st : PatchUserHandler(st, authenticateJWT(token), username, body))

PatchUser(store, token, username, body) ==
  Gate(store, ensureCorrectUserOrAdmin(authenticateJWT(token), username),
       LAMBDA st : PatchUserHandler(st, authenticateJWT(token), username, body))

DeleteUserOpen(store, token, username) == UserRemove(store, username)

DeleteUser(store, token, username) ==
  Gate(store, ensureCorrectUserOrAdmin(authenticateJWT(token), username),
       LAMBDA st : UserRemove(st, username))

ApplyHandler(store, locals, username, id, again) ==
  IF Len(locals) = 0 THEN Thrown(store, TypeError("TypeError"), 0)
  ELSE IF Foreign(locals, username)
  THEN Thrown(store, ForbiddenError("Unauthorized to apply for this job."), 0)
  ELSE UserApplyForJob(store, username, id, again)

PostUserJob(store, token, username, id, again) ==
  Gate(store, ensureCorrectUserOrAdmin(authenticateJWT(token), username),
       LAMBDA st : ApplyHandler(st, authenticateJWT(token), username, id, again))

(***************************************************************************)
(* routes/companies.js and routes/jobs.js: the writing routes are for      *)
(* admins.  They pass ensureLoggedIn and then ensureAdmin, validate the    *)
(* body, and call the repository.  Deleting a job deletes its              *)
(* applications.                                                           *)
(***************************************************************************)
Applications(store) ==
  LET Ids == {store.db.jobs[i].id : i \in 1..Len(store.db.jobs)}
  IN  [store EXCEPT !.users = [i \in 1..Len(@) |-> [@[i] EXCEPT !.jobs = @ \cap Ids]]]

OnDb(store, r) == [r EXCEPT !.db = Applications([store EXCEPT !.db = r.db])]

AdminOnly(store, token, Handler(_)) ==
  Gate(store, ensureLoggedIn(authenticateJWT(token)),
       LAMBDA st : Gate(st, ensureAdmin(authenticateJWT(token)), Handler))

Validated(store, body, Handler(_)) ==
  IF ~body.valid THEN Thrown(store, BadRequestError("invalid"), 0) ELSE Handler(store)

PostCompanies(store, token, body) ==
  AdminOnly(store, token, LAMBDA st : Validated(st, body,
    LAMBDA s : OnDb(s, CompanyCreate(s.db, body.data))))

PatchCompany(store, token, handle, body) ==
  AdminOnly(store, token, LAMBDA st : Validated(st, body,
    LAMBDA s : OnDb(s, CompanyUpdate(s.db, handle, body.data))))

DeleteCompany(store, token, handle) ==
  AdminOnly(store, token, LAMBDA st : OnDb(st, CompanyRemove(st.db, handle)))

PostJobs(store, token, body) ==
  AdminOnly(store, token, LAMBDA st : Validated(st, body,
    LAMBDA s : OnDb(s, JobCreate(s.db, body.data))))

PatchJob(store, token, id, body) ==
  AdminOnly(store, token, LAMBDA st : Validated(st, body,
    LAMBDA s : OnDb(s, JobUpdate(s.db, id, body.data))))

DeleteJob(store, token, id) ==
  AdminOnly(store, token, LAMBDA st : OnDb(st, JobRemove(st.db, id)))

(***************************************************************************)
(* Requests.  Every request is answered in one step: the store becomes the *)
(* one its route left, and last records the request with its answer.       *)
(***************************************************************************)
Respond(op, args, r) ==
  /\ companies' = r.db.db.companies
  /\ jobs' = r.db.db.jobs
  /\ jobSeq' = r.db.db.jobSeq
  /\ users' = r.db.users
  /\ last' = [msg |-> r.msg, out |-> r.out, op |-> op, ret |-> r.ret,
              nq |-> r.nq, args |-> args]
  /\ UNCHANGED <<input, calls>>

RouteUsers == <<[jobs |-> {}, username |-> "u1", isAdmin |-> FALSE, firstName |-> "U1F"],
                [jobs |-> {}, username |-> "admin1", isAdmin |-> TRUE, firstName |-> "Admin1"]>>

InitRoutes ==
  /\ companies = <<SeedCompanies[1]>>
  /\ jobs = <<SeedJobs[1]>>
  /\ jobSeq = 2
  /\ users = RouteUsers
  /\ last = NoCall
  /\ calls = [p \in Procs |-> Idle]
  /\ input = NoInput

\* Request bodies carry the verdict of their schema (valid); a registration
\* may ask for isAdmin.  Paths name a row that exists and one that does not.
Bodies ==
  [newUser |-> {[username |-> "u2", isAdmin |-> a, firstName |-> "U2F", valid |-> v] :
                  v \in BOOLEAN, a \in {<<>>, <<TRUE>>}},
   userPatch |-> {[firstName |-> "New", valid |-> v] : v \in BOOLEAN},
   newCompany |-> {[data |-> [handle |-> "c2", name |-> <<"N", "e">>,
                              description |-> "Desc1", numEmployees |-> 1,
                              logoUrl |-> "http://c1.img"],
                    valid |-> v] : v \in BOOLEAN},
   companyPatch |-> {[data |-> <<[v |-> MaxEmployees, k |-> "numEmployees"]>>,
                      valid |-> v] :
                       v \in BOOLEAN},
   newJob |-> {[data |-> [equity |-> "0", title |-> <<"N">>, salary |-> 1,
                          companyHandle |-> "c1"],
                valid |-> v] : v \in BOOLEAN},
   jobPatch |-> {[data |-> <<[v |-> MaxSalary, k |-> "salary"]>>, valid |-> v] :
                   v \in BOOLEAN}]
Paths == [companies |-> {"c2", "nope"}, jobs |-> {1, 0}, users |-> {"u1", "nope"}]

PostUsersReq(tokens) ==
  \E token \in tokens, body \in Bodies.newUser :
    \E r \in {PostUsers(Store, token, body)} :
      Respond("POST /users", [token |-> token, body |-> body], r)

PostUsersAdminReq(tokens) ==
  \E token \in tokens, body \in Bodies.newUser :
    \E r \in {PostUsersAdmin(Store, token, body)} :
      Respond("POST /users/admin", [token |-> token, body |-> body], r)

GetUsersReq(tokens) ==
  \E token \in tokens : \E r \in {GetUsers(Store, token)} :
    Respond("GET /users", [token |-> token], r)

GetUserReq(tokens) ==
  \E token \in tokens, username \in Paths.users :
    \E r \in {GetUser(Store, token, username)} :
      Respond("GET /users/:username", [token |-> token, username |-> username], r)

PatchUserReq(tokens) ==
  \E token \in tokens, username \in Paths.users, body \in Bodies.userPatch :
    \E r \in {PatchUser(Store, token, username, body)} :
      Respond("PATCH /users/:username",
              [token |-> token, username |-> username, body |-> body], r)

DeleteUserReq(tokens) ==
  \E token \in tokens, username \in Paths.users :
    \E r \in {DeleteUser(Store, token, username)} :
      Respond("DELETE /users/:username", [token |-> token, username |-> username], r)

PostUserJobReq(tokens) ==
  \E token \in tokens, username \in Paths.users, id \in Paths.jobs :
    \E again \in IF \E i \in 1..Len(users) : id \in users[i].jobs
                 THEN {"ok", "error"} ELSE {"ok"} :
      \E r \in {PostUserJob(Store, token, username, id, again)} :
        Respond("POST /users/:username/jobs/:id",
                [id |-> id, token |-> token, username |-> username], r)

PostCompaniesReq(tokens) ==
  \E token \in tokens, body \in Bodies.newCompany :
    \E r \in {PostCompanies(Store, token, body)} :
      Respond("POST /companies", [token |-> token, body |-> body], r)

PatchCompanyReq(tokens) ==
  \E token \in tokens, handle \in Paths.companies, body \in Bodies.companyPatch :
    \E r \in {PatchCompany(Store, token, handle, body)} :
      Respond("PATCH /companies/:handle",
              [handle |-> handle, token |-> token, body |-> body], r)

DeleteCompanyReq(tokens) ==
  \E token \in tokens, handle \in Paths.companies :
    \E r \in {DeleteCompany(Store, token, handle)} :
      Respond("DELETE /companies/:handle", [handle |-> handle, token |-> token], r)

PostJobsReq(tokens) ==
  /\ jobSeq <= MaxJobId
  /\ \E token \in tokens, body \in Bodies.newJob :
       \E r \in {PostJobs(Store, token, body)} :
         Respond("POST /jobs", [token |-> token, body |-> body], r)

PatchJobReq(tokens) ==
  \E token \in tokens, id \in Paths.jobs, body \in Bodies.jobPatch :
    \E r \in {PatchJob(Store, token, id, body)} :
      Respond("PATCH /jobs/:id", [id |-> id, token |-> token, body |-> body], r)

DeleteJobReq(tokens) ==
  \E token \in tokens, id \in Paths.jobs : \E r \in {DeleteJob(Store, token, id)} :
    Respond("DELETE /jobs/:id", [id |-> id, token |-> token], r)

NextRoutes ==
  \/ PostUsersReq(Tokens)
  \/ PostUsersAdminReq(Tokens)
  \/ GetUsersReq(Tokens)
  \/ GetUserReq(Tokens)
  \/ PatchUserReq(Tokens)
  \/ DeleteUserReq(Tokens)
  \/ PostUserJobReq(Tokens)
  \/ PostCompaniesReq(Tokens)
  \/ PatchCompanyReq(Tokens)
  \/ DeleteCompanyReq(Tokens)
  \/ PostJobsReq(Tokens)
  \/ PatchJobReq(Tokens)
  \/ DeleteJobReq(Tokens)

SpecRoutes == InitRoutes /\ [][NextRoutes]_vars

\* The same requests from callers who hold no admin token.
NextOpen ==
  \/ PostUsersReq(Tokens \ AdminTokens)
  \/ PostUsersAdminReq(Tokens \ AdminTokens)
  \/ GetUsersReq(Tokens \ AdminTokens)
  \/ GetUserReq(Tokens \ AdminTokens)
  \/ PatchUserReq(Tokens \ AdminTokens)
  \/ DeleteUserReq(Tokens \ AdminTokens)
  \/ PostUserJobReq(Tokens \ AdminTokens)
  \/ PostCompaniesReq(Tokens \ AdminTokens)
  \/ PatchCompanyReq(Tokens \ AdminTokens)
  \/ DeleteCompanyReq(Tokens \ AdminTokens)
  \/ PostJobsReq(Tokens \ AdminTokens)
  \/ PatchJobReq(Tokens \ AdminTokens)
  \/ DeleteJobReq(Tokens \ AdminTokens)

SpecOpen == InitRoutes /\ [][NextOpen]_vars

(***************************************************************************)
(* Properties.                                                             *)
(***************************************************************************)
HasCompany(table, handle) == \E i \in 1..Len(table) : table[i].handle = handle
HasJob(table, id) == \E i \in 1..Len(table) : table[i].id = id

\* sub occurs in s, letters compared without regard to case.
ContainsCI(s, sub) ==
  \E at \in 0..(Len(s) - Len(sub)) :
    \A j \in 1..Len(sub) : Lower(s[at + j]) = Lower(sub[j])

\* C1: for a dataToUpdate of N >= 1 keys sqlForPartialUpdate returns N
\* comma-separated assignments and N values, the i-th assignment using
\* placeholder $i and values[i] being the value of the i-th key; for an empty
\* dataToUpdate it throws BadRequestError "No data".
C1_PartialUpdateShape ==
  last.op = "sqlForPartialUpdate" =>
    LET data == last.args.dataToUpdate
        frags == Split(last.ret.setCols, Sym(","))
    IN  IF Len(data) = 0
        THEN last.out = "BadRequestError" /\ last.msg = "No data"
        ELSE /\ last.out = "ok"
             /\ Len(frags) = Len(data)
             /\ Len(last.ret.values) = Len(data)
             /\ \A i \in 1..Len(data) :
                  /\ Len(frags[i]) = 3
                  /\ frags[i][1].t = "id"
                  /\ frags[i][2] = Sym("=")
                  /\ frags[i][3] = Ph(i)
                  /\ last.ret.values[i] = data[i].v

C1_Witness ==
  /\ last.op = "sqlForPartialUpdate"
  /\ last.out = "ok"
  /\ Len(last.args.dataToUpdate) = MaxKeys
  /\ last.args.dataToUpdate[MaxKeys].k = "numEmployees"
  /\ last.ret.setCols[Len(last.ret.setCols) - 2] = Id("num_employees")

\* C3: Company.findAll given minEmployees > maxEmployees throws BadRequestError
\* "minEmployees cannot be greater than maxEmployees" and sends no query,
\* whatever the name filter.
RangeInverted(filters) ==
  /\ Present(filters, "minEmployees")
  /\ Present(filters, "maxEmployees")
  /\ filters.minEmployees > filters.maxEmployees

C3_InvertedRangeRejected ==
  (last.op = "Company.findAll" /\ RangeInverted(last.args)) =>
    /\ last.out = "BadRequestError"
    /\ last.msg = "minEmployees cannot be greater than maxEmployees"
    /\ last.nq = 0

C3_Witness ==
  /\ last.op = "Company.findAll"
  /\ RangeInverted(last.args)
  /\ Present(last.args, "name")
  /\ last.args.name # <<>>
  /\ Len(companies) > 0
  /\ last.out = "BadRequestError"

\* C4: Company.findAll given minEmployees <= maxEmployees returns exactly the
\* companies with minEmployees <= numEmployees <= maxEmployees that also
\* match the name filter when there is one, each once.
InEmployeeRange(row, filters) ==
  /\ row.num_employees # NullNum
  /\ filters.minEmployees <= row.num_employees
  /\ row.num_employees <= filters.maxEmployees
  /\ Present(filters, "name") => ContainsCI(row.name, filters.name)

BothBounds(filters) ==
  /\ Present(filters, "minEmployees")
  /\ Present(filters, "maxEmployees")
  /\ filters.minEmployees <= filters.maxEmployees

C4_RangeInclusive ==
  (last.op = "Company.findAll" /\ BothBounds(last.args)) =>
    /\ last.out = "ok"
    /\ {last.ret[i] : i \in 1..Len(last.ret)} =
         {CompanyShape(companies[i]) :
            i \in {j \in 1..Len(companies) : InEmployeeRange(companies[j], last.args)}}
    /\ Len(last.ret) =
         Cardinality({j \in 1..Len(companies) : InEmployeeRange(companies[j], last.args)})

\* Both bounds equal the size of a returned company; another company is left
\* out by the bounds and the name filter is in force.
C4_Witness ==
  /\ last.op = "Company.findAll"
  /\ BothBounds(last.args)
  /\ last.args.minEmployees = last.args.maxEmployees
  /\ Present(last.args, "name")
  /\ last.args.name = <<"e">>
  /\ Len(companies) = 2
  /\ last.out = "ok"
  /\ Len(last.ret) = 1
  /\ last.ret[1].numEmployees = last.args.minEmployees

\* C5: Job.findAll with hasEquity true returns only jobs whose equity is not
\* null and above 0, together with the title and minSalary filters; with
\* hasEquity false or absent equity is not restricted.
JobMatches(row, filters) ==
  /\ Present(filters, "title") => ContainsCI(row.title, filters.title)
  /\ Present(filters, "minSalary") =>
       (row.salary # NullNum /\ row.salary >= filters.minSalary)
  /\ (Present(filters, "hasEquity") /\ filters.hasEquity) =>
       row.equity \notin {NullText, "0"}

C5_HasEquity ==
  last.op = "Job.findAll" =>
    /\ last.out = "ok"
    /\ {last.ret[i] : i \in 1..Len(last.ret)} =
         {JobShape(jobs[i]) : i \in {j \in 1..Len(jobs) : JobMatches(jobs[j], last.args)}}
    /\ Len(last.ret) = Cardinality({j \in 1..Len(jobs) : JobMatches(jobs[j], last.args)})

\* hasEquity true with the other two filters, over jobs of which one is kept.
C5_Witness ==
  /\ last.op = "Job.findAll"
  /\ DOMAIN last.args = {"title", "minSalary", "hasEquity"}
  /\ last.args.hasEquity
  /\ Len(jobs) = 2
  /\ \E i \in 1..Len(jobs) : jobs[i].equity = "0"
  /\ Len(last.ret) = 1

\* C2: Company.update and Job.update given an empty data object throw
\* BadRequestError for every key, existing or not, before any statement is
\* sent: no query is counted and the tables are as they were.
C2_EmptyUpdateRejected ==
  [][(last'.op \in {"Company.update", "Job.update"} /\ Len(last'.args.data) = 0) =>
       /\ last'.out = "BadRequestError"
       /\ last'.nq = 0
       /\ companies' = companies
       /\ jobs' = jobs
       /\ jobSeq' = jobSeq]_vars

C2_Witness ==
  /\ last.op = "Job.update"
  /\ Len(last.args.data) = 0
  /\ HasJob(jobs, last.args.key)
  /\ last.out = "BadRequestError"
  /\ last.msg = "No data"

\* C6: Company.create with a handle already in the table throws
\* BadRequestError and leaves the table as it was: the existing row keeps
\* its fields and no row is added.
C6_DuplicateCreateRejected ==
  [][(last'.op = "Company.create" /\ HasCompany(companies, last'.args.handle)) =>
       /\ last'.out = "BadRequestError"
       /\ companies' = companies]_vars

C6_Witness ==
  /\ last.op = "Company.create"
  /\ last.out = "BadRequestError"
  /\ \E i \in 1..Len(companies) :
       /\ companies[i].handle = last.args.handle
       /\ companies[i].name # last.args.name
       /\ companies[i].num_employees # last.args.numEmployees

\* C7: when two Company.create calls with the same handle have both run their
\* duplicate check before either INSERT, one returns the company and the
\* other throws BadRequestError.
Raced(p, q) ==
  /\ p # q
  /\ calls[p].pc = "done"
  /\ calls[q].pc = "done"
  /\ calls[p].nq = 2
  /\ calls[q].nq = 2
  /\ calls[p].data.handle = calls[q].data.handle

C7_RaceLoserRejected ==
  \A p, q \in Procs :
    Raced(p, q) =>
      \/ calls[p].out = "ok" /\ calls[q].out = "BadRequestError"
      \/ calls[q].out = "ok" /\ calls[p].out = "BadRequestError"

\* C8: Company.get and Job.get throw NotFoundError when no row has the key,
\* never change the tables, and a get repeated right after itself with the
\* same key has the same outcome.
C8_GetReadsOnly ==
  [][last'.op \in {"Company.get", "Job.get"} =>
       /\ companies' = companies
       /\ jobs' = jobs
       /\ jobSeq' = jobSeq
       /\ (last'.op = "Company.get" /\ ~HasCompany(companies, last'.args.key)) =>
            last'.out = "NotFoundError"
       /\ (last'.op = "Job.get" /\ ~HasJob(jobs, last'.args.key)) =>
            last'.out = "NotFoundError"
       /\ (last.op = last'.op /\ last.args = last'.args) =>
            (last'.out = last.out /\ last'.ret = last.ret)]_vars

C8_Witness ==
  /\ last.op = "Job.get"
  /\ last.out = "NotFoundError"
  /\ Len(jobs) > 0
  /\ ~HasJob(jobs, last.args.key)

\* C9: Company.create with a handle not in the table returns the five fields
\* it was given; a Company.get of that handle right after returns the same
\* five values and jobs = []; a Company.create with that handle right after
\* either throws BadRequestError.
FiveFields(r) ==
  [handle |-> r.handle, name |-> r.name, description |-> r.description,
   numEmployees |-> r.numEmployees, logoUrl |-> r.logoUrl]

C9_CreateThenGet ==
  [][/\ (last'.op = "Company.create" /\ ~HasCompany(companies, last'.args.handle)) =>
          (last'.out = "ok" /\ last'.ret = last'.args)
     /\ (/\ last.op = "Company.create" /\ last.out = "ok"
         /\ last'.op = "Company.get" /\ last'.args.key = last.args.handle) =>
          /\ last'.out = "ok"
          /\ DOMAIN last'.ret = DOMAIN last.args \cup {"jobs"}
          /\ FiveFields(last'.ret) = last.args
          /\ last'.ret.jobs = <<>>
     /\ (/\ last.op \in {"Company.create", "Company.get"} /\ last.out = "ok"
         /\ last'.op = "Company.create" /\ last'.args.handle = last.ret.handle) =>
          last'.out = "BadRequestError"]_vars

C9_Witness ==
  /\ last.op = "Company.get"
  /\ last.out = "ok"
  /\ last.ret.jobs = <<>>
  /\ last.ret.numEmployees = NullNum
  /\ last.ret.logoUrl = NullText
  /\ Len(companies) = 2
  /\ companies[2].handle = last.args.key

\* C10: Company.update and Job.update given a non-empty data object and a key
\* that no row has throw NotFoundError and change no row.
UpdateMisses ==
  \/ last'.op = "Company.update" /\ ~HasCompany(companies, last'.args.key)
  \/ last'.op = "Job.update" /\ ~HasJob(jobs, last'.args.key)

C10_UpdateMissingKey ==
  [][(UpdateMisses /\ Len(last'.args.data) > 0) =>
       /\ last'.out = "NotFoundError"
       /\ companies' = companies
       /\ jobs' = jobs]_vars

C10_Witness ==
  /\ last.op = "Company.update"
  /\ Len(last.args.data) > 0
  /\ Len(companies) > 0
  /\ ~HasCompany(companies, last.args.key)
  /\ last.out = "NotFoundError"

\* C11: a successful Company.update or Job.update sets exactly the fields
\* named in data to the supplied values, null included, leaves the row's
\* other fields and every other row as they were, and returns the row as it
\* is after the update.
ColumnOf(k) ==
  CASE k = "numEmployees" -> "num_employees"
    [] k = "logoUrl" -> "logo_url"
    [] OTHER -> k

\* new is old with the columns named in data set to data's values.
PartlyUpdated(old, new, data) ==
  /\ DOMAIN new = DOMAIN old
  /\ \A i \in 1..Len(data) : new[ColumnOf(data[i].k)] = data[i].v
  /\ \A c \in DOMAIN old \ {ColumnOf(data[i].k) : i \in 1..Len(data)} : new[c] = old[c]

C11_UpdateFrame ==
  [][/\ (last'.op = "Company.update" /\ last'.out = "ok") =>
          /\ jobs' = jobs
          /\ Len(companies') = Len(companies)
          /\ \A i \in 1..Len(companies) :
               IF companies[i].handle = last'.args.key
               THEN /\ PartlyUpdated(companies[i], companies'[i], last'.args.data)
                    /\ last'.ret = CompanyShape(companies'[i])
               ELSE companies'[i] = companies[i]
     /\ (last'.op = "Job.update" /\ last'.out = "ok") =>
          /\ companies' = companies
          /\ Len(jobs') = Len(jobs)
          /\ \A i \in 1..Len(jobs) :
               IF jobs[i].id = last'.args.key
               THEN /\ PartlyUpdated(jobs[i], jobs'[i], last'.args.data)
                    /\ last'.ret = JobShape(jobs'[i])
               ELSE jobs'[i] = jobs[i]]_vars

\* c2 has just had numEmployees and logoUrl set to null while c1 keeps both.
C11_Witness ==
  /\ last.op = "Company.update"
  /\ last.out = "ok"
  /\ last.args.key = "c2"
  /\ Len(last.args.data) = 2
  /\ last.ret.numEmployees = NullNum
  /\ last.ret.logoUrl = NullText
  /\ last.ret.name = SeedCompanies[2].name
  /\ companies[1] = SeedCompanies[1]

\* C12: Company.remove and Job.remove delete exactly the row with the key
\* when there is one, the other rows of the table staying as they were, and
\* a get or a second remove of that key right after throws NotFoundError;
\* when no row has the key, remove throws NotFoundError and deletes nothing.
WithoutCompany(table, handle) ==
  LET Other(r) == r.handle # handle IN SelectSeq(table, Other)

WithoutJob(table, id) ==
  LET Other(r) == r.id # id IN SelectSeq(table, Other)

C12_RemoveExactly ==
  [][/\ last'.op = "Company.remove" =>
          IF HasCompany(companies, last'.args.key)
          THEN /\ last'.out = "ok"
               /\ companies' = WithoutCompany(companies, last'.args.key)
               /\ Len(companies') = Len(companies) - 1
          ELSE /\ last'.out = "NotFoundError"
               /\ companies' = companies
               /\ jobs' = jobs
     /\ last'.op = "Job.remove" =>
          IF HasJob(jobs, last'.args.key)
          THEN /\ last'.out = "ok"
               /\ jobs' = WithoutJob(jobs, last'.args.key)
               /\ Len(jobs') = Len(jobs) - 1
               /\ companies' = companies
          ELSE /\ last'.out = "NotFoundError"
               /\ companies' = companies
               /\ jobs' = jobs
     /\ (/\ last.op = "Company.remove" /\ last.out = "ok"
         /\ last'.op \in {"Company.get", "Company.remove"}
         /\ last'.args.key = last.args.key) => last'.out = "NotFoundError"
     /\ (/\ last.op = "Job.remove" /\ last.out = "ok"
         /\ last'.op \in {"Job.get", "Job.remove"}
         /\ last'.args.key = last.args.key) => last'.out = "NotFoundError"]_vars

\* The older of two jobs has just been removed and the newer one is left.
C12_Witness ==
  /\ last.op = "Job.remove"
  /\ last.out = "ok"
  /\ Len(jobs) = 1
  /\ last.args.key < jobs[1].id

(***************************************************************************)
(* The authorization gate.                                                 *)
(***************************************************************************)
SelfOrAdminRoutes == {"GET /users/:username", "PATCH /users/:username",
                      "DELETE /users/:username", "POST /users/:username/jobs/:id"}
AdminRoutes == {"POST /companies", "PATCH /companies/:handle", "DELETE /companies/:handle",
                "POST /jobs", "PATCH /jobs/:id", "DELETE /jobs/:id",
                "GET /users", "POST /users/admin"}
NoValidToken(req) == req.token \notin UserTokens \cup AdminTokens
ForeignCaller(req) == req.token \in UserTokens /\ req.token # req.username

\* C13: on the self-or-admin routes a request without a valid token is
\* answered Unauthenticated, never Forbidden, whether or not :username exists,
\* and it reaches no repository operation.
C13_AnonymousSelfOrAdmin ==
  (last.op \in SelfOrAdminRoutes /\ NoValidToken(last.args))
    => (last.out = "UnauthorizedError" /\ last.nq = 0)

C13_Witness ==
  /\ last.op = "GET /users/:username"
  /\ last.args.token = "none"
  /\ last.args.username = "u1"
  /\ HasUser(users, "u1")
  /\ last.out = "UnauthorizedError"

\* C14: on the self-or-admin routes the User repository is reached only for
\* an admin or for the user named in the path; any other authenticated caller
\* is answered Forbidden and the users table is neither read nor changed.
C14_ForeignCallerForbidden ==
  [][last'.op \in SelfOrAdminRoutes =>
       /\ last'.nq > 0 =>
            (last'.args.token \in AdminTokens \/ last'.args.token = last'.args.username)
       /\ ForeignCaller(last'.args) =>
            (last'.out = "ForbiddenError" /\ last'.nq = 0 /\ users' = users)]_vars

C14_Witness ==
  /\ last.op = "DELETE /users/:username"
  /\ last.args.token = "u2"
  /\ last.args.username = "u1"
  /\ last.out = "ForbiddenError"
  /\ HasUser(users, "u1")

\* C15: on the admin-only routes a request authenticated as a non-admin is
\* answered Forbidden, reaches no repository operation and leaves the store
\* as it was.
C15_NonAdminForbidden ==
  [][(last'.op \in AdminRoutes /\ last'.args.token \in UserTokens) =>
       /\ last'.out = "ForbiddenError"
       /\ last'.nq = 0
       /\ UNCHANGED <<companies, jobs, jobSeq, users>>]_vars

C15_Witness ==
  /\ last.op = "POST /users/admin"
  /\ last.args.token = "u1"
  /\ last.args.body.valid
  /\ last.args.body.isAdmin = <<TRUE>>
  /\ last.out = "ForbiddenError"
  /\ ~HasUser(users, "u2")

\* C16: a request without a valid token never ends in Forbidden; on every
\* route that requires authorization it is answered Unauthenticated, and
\* Forbidden answers only requests whose token is valid.
C16_AnonymousNeverForbidden ==
  (last.op \in AdminRoutes \cup SelfOrAdminRoutes /\ NoValidToken(last.args))
    => (last.out = "UnauthorizedError" /\ last.out # "ForbiddenError")

\* C17: the gate comes before the repository: an authenticated non-admin who
\* targets a company or a user that does not exist is answered Forbidden,
\* never NotFound.
C17_GateBeforeLookup ==
  [][(\/ /\ last'.op \in {"PATCH /companies/:handle", "DELETE /companies/:handle"}
         /\ last'.args.token \in UserTokens
         /\ ~HasCompany(companies, last'.args.handle)
      \/ /\ last'.op \in {"GET /users/:username", "PATCH /users/:username",
                          "DELETE /users/:username"}
         /\ ForeignCaller(last'.args)
         /\ ~HasUser(users, last'.args.username))
       => (last'.out = "ForbiddenError" /\ last'.out # "NotFoundError")]_vars

C17_Witness ==
  /\ last.op = "DELETE /users/:username"
  /\ last.args.token = "u1"
  /\ last.args.username = "nope"
  /\ ~HasUser(users, "nope")
  /\ last.out = "ForbiddenError"

\* C18: POST /users registers every valid body with isAdmin = false, also a
\* body that asks for isAdmin: true; so without an admin token no request
\* sequence makes a user an admin: the only admins are the seeded ones.
C18_RegistrationNeverAdmin ==
  /\ \A i \in 1..Len(users) : users[i].isAdmin => users[i] \in Range(RouteUsers)
  /\ (last.op = "POST /users" /\ last.out = "ok")
       => /\ ~last.ret.isAdmin
          /\ \E i \in 1..Len(users) :
               users[i].username = last.args.body.username /\ ~users[i].isAdmin

C18_Witness ==
  /\ last.op = "POST /users"
  /\ last.args.body.isAdmin = <<TRUE>>
  /\ last.out = "ok"
  /\ HasUser(users, "u2")

\* C19: Company.findAll returns its companies in ascending order of name and
\* Job.findAll its jobs in ascending order of id, under every combination of
\* filters, none included.
C19_FindAllOrdered ==
  /\ (last.op = "Company.findAll" /\ last.out = "ok") =>
       \A i, j \in 1..Len(last.ret) :
         i < j => ~TextLess(last.ret[j].name, last.ret[i].name)
  /\ (last.op = "Job.findAll" /\ last.out = "ok") =>
       \A i, j \in 1..Len(last.ret) : i < j => last.ret[i].id < last.ret[j].id

\* Both jobs are returned, from a table that holds the newer one first.
C19_Witness ==
  /\ last.op = "Job.findAll"
  /\ last.out = "ok"
  /\ Len(last.ret) = 2
  /\ Len(jobs) = 2
  /\ jobs[1].id > jobs[2].id

\* C20: Job.create with a companyHandle that no company has fails with
\* BadRequestError, not with an unclassified storage error, and inserts no
\* job.
C20_CreateUnknownCompany ==
  [][(last'.op = "Job.create" /\ ~HasCompany(companies, last'.args.companyHandle))
       => (last'.out = "BadRequestError" /\ jobs' = jobs)]_vars

C22_KeysNeverReused ==
  [][/\ ~(/\ last.op = "Company.remove" /\ last.out = "ok"
          /\ last'.op = "Company.create" /\ last'.out = "ok"
          /\ last'.args.handle = last.args.key)
     /\ (last'.op = "Job.create" /\ last'.out = "ok") => last'.ret.id >= jobSeq]_vars

\* C22, as the code has it: job ids are never reused (the sequence only
\* grows, every job's id is below it, and a created job takes the sequence's
\* value); a handle is unique among the companies in the table, and free
\* again once its company is removed.
C22_JobIdsNeverReused ==
  [][/\ jobSeq' >= jobSeq
     /\ \A i \in 1..Len(jobs') : jobs'[i].id < jobSeq'
     /\ (last'.op = "Job.create" /\ last'.out = "ok") =>
          (last'.ret.id = jobSeq /\ jobSeq' = jobSeq + 1)
     /\ (last'.op = "Company.create" /\ last'.out = "ok") =>
          ~HasCompany(companies, last'.args.handle)
     /\ \A i, j \in 1..Len(companies') :
          i # j => companies'[i].handle # companies'[j].handle]_vars

\* The second job was created when the first was gone: it is not given id 1.
C22_Witness ==
  /\ last.op = "Job.create"
  /\ last.out = "ok"
  /\ last.ret.id = 2
  /\ Len(jobs) = 1

\* C23: primary keys are immutable: no Company.update changes the handle of
\* a company and no Job.update changes the id of a job, whatever data the
\* call is given, data that names handle or id included.
C23_KeysImmutable ==
  [][/\ last'.op = "Company.update" =>
          /\ Len(companies') = Len(companies)
          /\ \A i \in 1..Len(companies) : companies'[i].handle = companies[i].handle
     /\ last'.op = "Job.update" =>
          /\ Len(jobs') = Len(jobs)
          /\ \A i \in 1..Len(jobs) : jobs'[i].id = jobs[i].id]_vars

PhCount(text) == Cardinality({i \in 1..Len(text) : text[i].t = "ph"})

\* The filters a findAll applies: the supplied ones, but for a name that is
\* the empty string and a hasEquity that is not true.
CompanyApplied(filters) == {k \in DOMAIN filters : k # "name" \/ filters.name # <<>>}
JobApplied(filters) == {k \in DOMAIN filters : k # "hasEquity" \/ filters.hasEquity = TRUE}

\* C25 as stated: in both findAll, every applied filter contributes exactly
\* one predicate and exactly one placeholder with one bound value, an absent
\* filter contributes nothing, and without filters there is no WHERE clause
\* and the value list is empty.
C25_OnePredicateOnePlaceholder ==
  /\ last.op = "Company.findAll" =>
       LET built == CompanyFindAllBuild(last.args)
           n == Cardinality(CompanyApplied(last.args))
       IN  /\ Len(built.whereClauses) = n
           /\ Len(built.queryValues) = n
           /\ PhCount(CompanyFindAllQuery(built)) = n
           /\ \A i \in 1..n : PhCount(built.whereClauses[i]) = 1
           /\ (n = 0) => IndexOf(CompanyFindAllQuery(built), Sym("WHERE")) = 0
  /\ last.op = "Job.findAll" =>
       LET built == JobFindAllBuild(last.args)
           n == Cardinality(JobApplied(last.args))
       IN  /\ Len(built.whereClauses) = n
           /\ Len(built.queryValues) = n
           /\ PhCount(JobFindAllQuery(built)) = n
           /\ \A i \in 1..n : PhCount(built.whereClauses[i]) = 1
           /\ (n = 0) => IndexOf(JobFindAllQuery(built), Sym("WHERE")) = 0

\* C25, amended: every applied filter contributes exactly one predicate; the
\* filters minEmployees, maxEmployees, name, title and minSalary contribute
\* one placeholder and one bound value each, while hasEquity contributes the
\* predicate equity > 0, which has no placeholder and binds no value; an
\* absent filter contributes nothing, and without applied filters there is
\* no WHERE clause and the value list is empty.
C25_FilterContributions ==
  /\ last.op = "Company.findAll" =>
       LET built == CompanyFindAllBuild(last.args)
           n == Cardinality(CompanyApplied(last.args))
       IN  /\ Len(built.whereClauses) = n
           /\ Len(built.queryValues) = n
           /\ PhCount(CompanyFindAllQuery(built)) = n
           /\ \A i \in 1..n : PhCount(built.whereClauses[i]) = 1
           /\ (n = 0) => IndexOf(CompanyFindAllQuery(built), Sym("WHERE")) = 0
  /\ last.op = "Job.findAll" =>
       LET built == JobFindAllBuild(last.args)
           applied == JobApplied(last.args)
           n == Cardinality(applied)
           bound == Cardinality(applied \ {"hasEquity"})
           literal == <<Id("equity"), Sym(">"), Lit(0)>>
       IN  /\ Len(built.whereClauses) = n
           /\ Len(built.queryValues) = bound
           /\ PhCount(JobFindAllQuery(built)) = bound
           /\ \A i \in 1..bound : PhCount(built.whereClauses[i]) = 1
           /\ ("hasEquity" \in applied) <=>
                (\E i \in 1..n : built.whereClauses[i] = literal)
           /\ (n = 0) => IndexOf(JobFindAllQuery(built), Sym("WHERE")) = 0

\* hasEquity is applied next to a title: two predicates and one value.
C25_Witness ==
  /\ last.op = "Job.findAll" /\ last.out = "ok"
  /\ DOMAIN last.args = {"title", "hasEquity"}
  /\ last.args.hasEquity = TRUE
  /\ Len(JobFindAllBuild(last.args).whereClauses) = 2
  /\ Len(JobFindAllBuild(last.args).queryValues) = 1

BodyRoutes == {"POST /users", "POST /users/admin", "PATCH /users/:username",
               "POST /companies", "PATCH /companies/:handle",
               "POST /jobs", "PATCH /jobs/:id"}

Allowed(op, req) ==
  \/ op = "POST /users"
  \/ op \in AdminRoutes /\ req.token \in AdminTokens
  \/ op \in SelfOrAdminRoutes /\
       (req.token \in AdminTokens \/ req.token = req.username)

PhSeq(text) ==
  LET IsPh(tok) == tok.t = "ph"
      phs == SelectSeq(text, IsPh)
  IN  [i \in 1..Len(phs) |-> phs[i].n]

\* C28: Company.update and Job.update bind the key to placeholder N+1, N the
\* number of fields in data, and pass the N field values in insertion order
\* followed by the key: the statement's placeholders are $1..$N in the SET
\* list and $N+1 in the WHERE clause, and the statement run with that value
\* list is what the call did to the tables.
C28_KeyPlaceholder ==
  [][(last'.op \in {"Company.update", "Job.update"} /\ Len(last'.args.data) > 0) =>
       LET company == last'.op = "Company.update"
           data == last'.args.data
           N == Len(data)
           values == [i \in 1..(N + 1) |-> IF i <= N THEN data[i].v ELSE last'.args.key]
       IN  \A sql \in {sqlForPartialUpdate(data, IF company
                                                  THEN [numEmployees |-> "num_employees",
                                                        logoUrl |-> "logo_url"]
                                                  ELSE <<>>)} :
             \A text \in {IF company THEN CompanyUpdateQuery(sql) ELSE JobUpdateQuery(sql)} :
               \A set \in {Split(Section(text, "SET", {"WHERE"}), Sym(","))},
                  result \in {dbQuery(DB, text, values)} :
                 /\ PhSeq(text) = [i \in 1..(N + 1) |-> i]
                 /\ Len(set) = N
                 /\ \A i \in 1..N : set[i] = <<Id(ColumnOf(data[i].k)), Sym("="), Ph(i)>>
                 /\ Section(text, "WHERE", {}) =
                      <<Id(IF company THEN "handle" ELSE "id"), Sym("="), Ph(N + 1)>>
                 /\ sql.values \o <<last'.args.key>> = values
                 /\ result.db.companies = companies'
                 /\ result.db.jobs = jobs'
                 /\ (last'.out = "ok") =>
                      (result.err = "" /\ Len(result.rows) = 1 /\
                       last'.ret = IF company THEN CompanyShape(result.rows[1])
                                   ELSE JobShape(result.rows[1]))]_vars

\* Job 2 has just had two fields set: the key is the third value.
C28_Witness ==
  /\ last.op = "Job.update"
  /\ last.out = "ok"
  /\ last.args.key = 2
  /\ Len(last.args.data) = 2
  /\ last.ret.id = 2
  /\ PhSeq(JobUpdateQuery(sqlForPartialUpdate(last.args.data, <<>>))) = <<1, 2, 3>>

\* C29: for every subset of the filters of Company.findAll and of
\* Job.findAll, the statement sent to the database uses the placeholders
\* $1..$k once each, in that order, k being the length of the value list
\* sent with it, and the value at position i is the value of the filter
\* whose predicate holds $i.
C29_PlaceholdersContiguous ==
  /\ (last.op = "Company.findAll" /\ last.nq > 0) =>
       \A built \in {CompanyFindAllBuild(last.args)} :
         LET text == CompanyFindAllQuery(built)
             k == Len(built.queryValues)
         IN  /\ PhSeq(text) = [i \in 1..k |-> i]
             /\ \A i \in 1..k :
                  \E c \in 1..Len(built.whereClauses) :
                    /\ PhSeq(built.whereClauses[c]) = <<i>>
                    /\ built.queryValues[i] =
                         CASE built.whereClauses[c][2] = Sym(">=") -> last.args.minEmployees
                           [] built.whereClauses[c][2] = Sym("<=") -> last.args.maxEmployees
                           [] OTHER -> <<"%">> \o last.args.name \o <<"%">>
  /\ (last.op = "Job.findAll" /\ last.nq > 0) =>
       \A built \in {JobFindAllBuild(last.args)} :
         LET text == JobFindAllQuery(built)
             k == Len(built.queryValues)
         IN  /\ PhSeq(text) = [i \in 1..k |-> i]
             /\ \A i \in 1..k :
                  \E c \in 1..Len(built.whereClauses) :
                    /\ PhSeq(built.whereClauses[c]) = <<i>>
                    /\ built.queryValues[i] =
                         CASE built.whereClauses[c][2] = Sym(">=") -> last.args.minSalary
                           [] OTHER -> <<"%">> \o last.args.title \o <<"%">>

\* All three filters of Company.findAll are applied and a company is found.
C29_Witness ==
  /\ last.op = "Company.findAll" /\ last.out = "ok"
  /\ DOMAIN last.args = {"minEmployees", "maxEmployees", "name"}
  /\ last.args.name # <<>>
  /\ PhSeq(CompanyFindAllQuery(CompanyFindAllBuild(last.args))) = <<1, 2, 3>>
  /\ Len(last.ret) > 0

\* C30: Company.findAll treats a name that is the empty string as an absent
\* name filter and adds no predicate for it, while a minEmployees or
\* maxEmployees of 0 is applied as a bound; Job.findAll applies every
\* supplied title, the empty string included, as a %...% pattern.
C30_FalsyFilters ==
  /\ (last.op = "Company.findAll" /\ last.nq > 0) =>
       \A built \in {CompanyFindAllBuild(last.args)} :
         LET Has(col, op) == \E c \in 1..Len(built.whereClauses) :
                               /\ built.whereClauses[c][1] = Id(col)
                               /\ built.whereClauses[c][2] = Sym(op)
             without == [k \in DOMAIN last.args \ {"name"} |-> last.args[k]]
         IN  /\ Has("name", "ILIKE") <=>
                  (Present(last.args, "name") /\ last.args.name # <<>>)
             /\ Has("num_employees", ">=") <=> Present(last.args, "minEmployees")
             /\ Has("num_employees", "<=") <=> Present(last.args, "maxEmployees")
             /\ (Present(last.args, "name") /\ last.args.name = <<>>) =>
                  /\ built = CompanyFindAllBuild(without)
                  /\ last.out = "ok"
                  /\ last.ret = CompanyFindAll(DB, without).ret
             /\ (last.out = "ok" /\ Present(last.args, "minEmployees")) =>
                  \A i \in 1..Len(last.ret) :
                    /\ last.ret[i].numEmployees # NullNum
                    /\ last.ret[i].numEmployees >= last.args.minEmployees
             /\ (last.out = "ok" /\ Present(last.args, "maxEmployees")) =>
                  \A i \in 1..Len(last.ret) :
                    /\ last.ret[i].numEmployees # NullNum
                    /\ last.ret[i].numEmployees <= last.args.maxEmployees
  /\ last.op = "Job.findAll" =>
       \A built \in {JobFindAllBuild(last.args)} :
         Present(last.args, "title") <=>
           /\ Len(built.whereClauses) > 0
           /\ built.whereClauses[1] = <<Id("title"), Sym("ILIKE"), Ph(1)>>
           /\ built.queryValues[1] = <<"%">> \o last.args.title \o <<"%">>

\* A maxEmployees of 0 with an empty name keeps the company of 0 employees
\* and leaves out the other.
C30_Witness ==
  /\ last.op = "Company.findAll" /\ last.out = "ok"
  /\ DOMAIN last.args = {"maxEmployees", "name"}
  /\ last.args.maxEmployees = 0
  /\ last.args.name = <<>>
  /\ Len(companies) = 2
  /\ Len(last.ret) = 1
  /\ last.ret[1].numEmployees = 0

====
